---- MODULE Spec2Model ----
(***************************************************************************)
(* arche-browser: the accessibility-tree snapshot subsystem                *)
(* (src/arche_browser/snapshot.py) and the CDP transport                   *)
(* (src/arche_browser/browser.py).                                         *)
(*                                                                         *)
(* Strings that the code formats or compares by prefix (identifiers,       *)
(* error messages) are sequences of one-character strings, so that         *)
(* f"v{version}_{b36}" and str.startswith are computed, not assumed.       *)
(***************************************************************************)
EXTENDS Integers, Sequences, FiniteSets, TLC

VARIABLES
    \* ---- SnapshotManager (snapshot.py 209-319) ----
    version,      \* SnapshotManager._version
    current,      \* SnapshotManager._current: <<>> (None) or <<Snapshot>>
    pc,           \* where take() stands: "idle" | "query"
    lastOp,       \* the last get_element/click/type_text/focus/hover call: its
                  \* arguments, the manager before it, its outcome
    \* ---- observers of the snapshot manager (not program state) ----
    takes,        \* take() calls started so far
    minted,       \* [take, ver, uid] of every identifier handed out so far
    lastComplete, \* the last snapshot whose parse() finished
    curRaw,       \* accessibility tree the current snapshot was parsed from
    sameRaw,      \* the last two takes parsed the same raw tree
    \* ---- Snapshot.parse as a function (snapshot.py 76-139) ----
    rawIn,        \* the Accessibility.getFullAXTree response
    parsed,       \* <<>>, or <<the Snapshot after parse(rawIn)>>
    \* ---- CDP transport (browser.py 27-140) ----
    ws,           \* CDP._ws: "closed" | "open"
    cdpId,        \* CDP._id
    callbacks,    \* CDP._callbacks: event name -> sequence of handlers
    stack,        \* the send() calls in progress, innermost last
    wire,         \* messages the browser has written, not yet received
    owed,         \* ids of commands the browser has not answered yet
    nEvents,      \* events the browser has emitted so far
    \* ---- observers of the transport (not program state) ----
    rets,         \* command id -> how the send() call that sent it ended
    passedOver,   \* replies a send() call received and went past although
                  \* they carried the id of the command that call had sent
    \* ---- WaitForHelper (wait.py 23-157) ----
    wpc,          \* where wait_after_action stands: "idle" | "entered" |
                  \* "action" | "sleep" | "nav" | "dom" | "done"
    aborted,      \* WaitForHelper._aborted
    page,         \* what the page does after the action (fixed at the call)
    wres,         \* <<>>, or <<what wait_after_action returned or raised>>
    \* ---- observers of the wait (not program state) ----
    wclock,       \* milliseconds spent in the wait steps so far
    wlog,         \* the wait steps run so far, each with what it returned
    abortAt,      \* <<>>, or <<[pc, clock]>> of the first abort() in flight
    \* ---- CDP.connect (browser.py 37-77) ----
    targets,      \* <<>>, or <<the list http://{address}/json/list answered>>
    pageFilter,   \* page_filter: <<>> (None) or <<the set of URLs it accepts>>
    connRes,      \* <<>>, or <<[picked, result]>>: the index of the target
                  \* connect() chose (0: none) and what it returned or raised
    closes,       \* observer: the close() calls so far, each [was, fails,
                  \* result, now]
    \* ---- CDP.poll (browser.py 111-131) ----
    pollSt,       \* <<>>, or <<the poll() call in progress>>
    sockTimeout,  \* the receive timeout of the socket, in ms
    \* ---- observer of poll (not program state) ----
    lastPoll,     \* <<>>, or <<how the last poll() call ended>>
    \* ---- Snapshot.format as a function (snapshot.py 156-199) ----
    fmtIn,        \* <<>>, or <<the tree of the snapshot to render>>
    fmtOut,       \* <<>>, or <<[verbose, text]>>: the text format(verbose) returned
    \* ---- box_center as a function (utils.py 10-28) ----
    boxCall,      \* <<>>, or <<[content, center]>>: a call and what it returned
    \* ---- PerformanceTrace and its threads (trace.py 121-224) ----
    tpc,          \* thread -> where it stands
    recording,    \* PerformanceTrace._recording
    nCalls,       \* commands and polls the calling thread has issued so far
    nPolls,       \* thread -> cdp.poll calls of its stop() so far
    sendId,       \* CDP._id of the connection the two threads share
    idStage,      \* thread -> how far its send() is: 0 entered, 1 read _id,
                  \* 2 stored _id + 1, 3 wrote the message
    loaded,       \* thread -> the value of _id it read for self._id += 1
    wrote,        \* observer: the ids of the commands written, in order
    \* ---- observer of BrowserContext.reset (context.py 83-90) ----
    resetAt,      \* <<>>, or <<the number of take() calls before the reset>>
    \* ---- SnapshotManager.take as a whole (snapshot.py 228-234) ----
    axTree,       \* <<>>, or <<the tree Accessibility.getFullAXTree answers>>
    took,         \* observer: the take() calls so far, each [verbose, version,
                  \* text, count, snap]
    \* ---- PerformanceTrace.stop and its events (trace.py 182-224) ----
    stopPc,       \* where stop() stands: "idle" | "send" | "poll" | "done"
    sock,         \* what the browser writes after Tracing.end, not yet received
    stopOn,       \* on_complete and on_data of this stop() are registered
    observed,     \* the events the handlers of this stop() were called with
    arrival,      \* observer: everything the browser wrote, in order
    \* ---- ConsoleCollector (collector.py 150-196, 296-355) ----
    colEnabled,   \* AbstractCDPCollector._enabled
    colHandlers,  \* how many times _on_console stands in
                  \* CDP._callbacks["Runtime.consoleAPICalled"]
    colDomain,    \* the browser's Runtime domain is enabled: it emits events
    colMessages,  \* ConsoleCollector._messages: the events recorded, in order
    colCalls,     \* observer: enable() and disable() calls so far
    colEvents     \* observer: Runtime.consoleAPICalled events emitted so far

snapVars  == <<version, current, pc, lastOp, takes, minted, lastComplete, curRaw,
               sameRaw>>
parseVars == <<rawIn, parsed>>
cdpVars   == <<ws, cdpId, callbacks, stack, wire, owed, nEvents, rets, passedOver>>
waitVars  == <<wpc, aborted, page, wres, wclock, wlog, abortAt>>
connVars  == <<targets, pageFilter, connRes, closes>>
pollVars  == <<pollSt, sockTimeout, lastPoll>>
fmtVars   == <<fmtIn, fmtOut>>
boxVars   == <<boxCall>>
idVars    == <<sendId, idStage, loaded, wrote>>
traceVars == <<tpc, recording, nCalls, nPolls, idVars>>
ctxVars   == <<resetAt>>
takeVars  == <<axTree, took>>
stopVars  == <<stopPc, sock, stopOn, observed, arrival>>
colVars   == <<colEnabled, colHandlers, colDomain, colMessages, colCalls, colEvents>>
vars      == <<snapVars, parseVars, cdpVars, waitVars, connVars, pollVars, fmtVars, boxVars, traceVars, ctxVars, takeVars, stopVars, colVars>>

None == "None"

-----------------------------------------------------------------------------
(* Bounds of the model. *)

\* nodes in one raw accessibility tree given to Snapshot.parse
MaxNodes == 4
\* nodes in one raw accessibility tree answered to SnapshotManager.take
MaxSnapNodes == 2
\* take() calls on one SnapshotManager
MaxTakes == 3
\* commands sent on one CDP object
MaxCmds == 3
\* single events the browser emits
MaxEvents == 1
\* messages in flight from the browser
MaxWire == 1
\* targets in one answer of /json/list
MaxTargets == 3
\* close() calls on one CDP object
MaxCloses == 2
\* nodes in one snapshot given to Snapshot.format
MaxFmtNodes == 3
\* largest absolute value of a coordinate given to box_center
MaxCoord == 2
\* commands and polls the calling thread issues besides start() and stop()
MaxCalls == 3
\* cdp.poll calls of one stop() before the trace is complete or 30 s are over
MaxStopPolls == 2
\* commands the two threads send on the shared connection
MaxSendId == 3
\* Tracing.dataCollected events of one recording
MaxTraceData == 3
\* enable()/disable() calls on a collector, and console events of the page
MaxColCalls == 4
MaxColEvents == 2
\* nodes of the tree the page answers with, and take() calls on it
MaxTakeNodes == 3
MaxTook == 3

-----------------------------------------------------------------------------
(* Text. *)

\* snapshot.py 69: chars = "0123456789abcdefghijklmnopqrstuvwxyz"
Chars36 ==
    << "0","1","2","3","4","5","6","7","8","9","a","b","c","d","e","f","g","h",
       "i","j","k","l","m","n","o","p","q","r","s","t","u","v","w","x","y","z" >>

\* a counter rendered with two symbols only, one position
B36OneBit(n) == <<Chars36[(n % 2) + 1]>>

\* snapshot.py 70-73: while n: b36 = chars[n % 36] + b36; n //= 36
RECURSIVE B36(_)
B36(n) == IF n = 0 THEN <<>> ELSE B36(n \div 36) \o <<Chars36[(n % 36) + 1]>>

\* str(int) of a non-negative integer, as the f-strings of snapshot.py format it
RECURSIVE Dec(_)
Dec(n) == IF n < 10 THEN <<Chars36[n + 1]>> ELSE Dec(n \div 10) \o <<Chars36[(n % 10) + 1]>>

\* str.startswith
StartsWith(s, p) == Len(s) >= Len(p) /\ SubSeq(s, 1, Len(p)) = p

\* sub in s (contiguous)
Contains(s, sub) ==
    \E i \in 0..(Len(s) - Len(sub)) : SubSeq(s, i + 1, i + Len(sub)) = sub

\* snapshot.py 152: f"v{self._version}_"
VersionPrefix(v) == <<"v">> \o Dec(v) \o <<"_">>

UidDropsVersion(v, n) == <<"v", "_">> \o (IF B36(n) = <<>> THEN <<"0">> ELSE B36(n))

\* snapshot.py 74: f"v{self._version}_{b36 or '0'}"
Uid(v, n) == VersionPrefix(v) \o (IF B36(n) = <<>> THEN <<"0">> ELSE B36(n))

-----------------------------------------------------------------------------
(* Raw accessibility trees: the "nodes" array of Accessibility.getFullAXTree. *)
(* A raw node is [nodeId, childIds, ignored, role, name, backendDOMNodeId];    *)
(* backendDOMNodeId 0 stands for an absent key. nodes[0] is the document      *)
(* root, which the browser does not mark ignored.                             *)

RECURSIVE Ascending(_)
Ascending(S) ==
    IF S = {} THEN <<>>
    ELSE LET m == CHOOSE x \in S : \A y \in S : x <= y
         IN  <<m>> \o Ascending(S \ {m})

\* an id no node of the array carries: lookup.get(cid) is None for it
DanglingId == 99

RawNode(i, n, par, ign, prof, dang) ==
    LET kids == Ascending({j \in 2..n : par[j] = i})
        role == IF i = 1 THEN "RootWebArea"
                ELSE IF (i + prof) % 2 = 0 THEN "generic" ELSE "button"
    IN  [ nodeId  |-> i,
          childIds |-> IF dang /\ i = 1 THEN <<DanglingId>> \o kids ELSE kids,
          ignored |-> i \in ign,
          role    |-> role,
          name    |-> IF role = "button" THEN "Go" ELSE "",
          backendDOMNodeId |-> IF (i + prof) % 3 = 0 THEN 0 ELSE 100 + i ]

\* every tree of exactly n nodes: node j > 1 hangs under a node of smaller id
RawTreesOf(n, profs, dangs) ==
    { [i \in 1..n |-> RawNode(i, n, par, ign, prof, dang)] :
        par  \in { p \in [2..n -> 1..n] : \A j \in 2..n : p[j] < j },
        ign  \in SUBSET (2..n),
        prof \in profs,
        dang \in dangs }

RawTrees  == UNION { RawTreesOf(n, {0, 1}, BOOLEAN) : n \in 0..MaxNodes }
SnapTrees == UNION { RawTreesOf(n, {0}, {FALSE}) : n \in 0..MaxSnapNodes }

-----------------------------------------------------------------------------
(* Snapshot (snapshot.py 38-206).                                          *)
(* A Snapshot is [version, root, uid_map, backend_map, counter]; a         *)
(* SnapshotNode is [uid, raw, role, name, backend_node_id, children] where *)
(* raw is the nodeId of the raw node it was parsed from (an observer       *)
(* field) and children is the sequence of child SnapshotNodes. An          *)
(* Optional value is <<>> for None and <<x>> for x.                        *)

\* dict assignment d[k] = v
Put(d, k, v) == [x \in DOMAIN d \cup {k} |-> IF x = k THEN v ELSE d[x]]

EmptyMap == [x \in {} |-> None]

\* snapshot.py 48-54: Snapshot.__init__
NewSnapshot(v) ==
    [ version |-> v, root |-> <<>>, uid_map |-> EmptyMap,
      backend_map |-> EmptyMap, counter |-> 0 ]

\* snapshot.py 87: lookup = {n.get("nodeId", ""): n for n in nodes if n.get("nodeId")}
Lookup(nodes) ==
    [ id \in { nodes[i].nodeId : i \in DOMAIN nodes } |->
        nodes[CHOOSE i \in DOMAIN nodes :
                /\ nodes[i].nodeId = id
                /\ \A j \in DOMAIN nodes : nodes[j].nodeId = id => j <= i] ]

RECURSIVE ParseNode(_, _, _)
RECURSIVE ParseChildren(_, _, _)
RECURSIVE ParseGrandChildren(_, _, _)

\* snapshot.py 132-135: the children of an ignored child, each parsed as a node
ParseGrandChildren(gcids, lookup, s) ==
    IF gcids = <<>> THEN [nodes |-> <<>>, snap |-> s]
    ELSE LET gcid == Head(gcids)
             one  == IF gcid \in DOMAIN lookup
                     THEN LET r == ParseNode(lookup[gcid], lookup, s)
                          IN  [nodes |-> <<r.node>>, snap |-> r.snap]
                     ELSE [nodes |-> <<>>, snap |-> s]
             rest == ParseGrandChildren(Tail(gcids), lookup, one.snap)
         IN  [nodes |-> one.nodes \o rest.nodes, snap |-> rest.snap]

\* snapshot.py 128-137: for cid in data.get("childIds", [])
ParseChildren(cids, lookup, s) ==
    IF cids = <<>> THEN [nodes |-> <<>>, snap |-> s]
    ELSE LET cid  == Head(cids)
             one  == IF cid \notin DOMAIN lookup
                     THEN [nodes |-> <<>>, snap |-> s]
                     ELSE IF lookup[cid].ignored
                     THEN ParseGrandChildren(lookup[cid].childIds, lookup, s)
                     ELSE LET r == ParseNode(lookup[cid], lookup, s)
                          IN  [nodes |-> <<r.node>>, snap |-> r.snap]
             rest == ParseChildren(Tail(cids), lookup, one.snap)
         IN  [nodes |-> one.nodes \o rest.nodes, snap |-> rest.snap]

\* snapshot.py 91-139: Snapshot._parse_node
ParseNode(data, lookup, s) ==
    LET n    == s.counter + 1
        uid  == Uid(s.version, n)
        s1   == [s EXCEPT !.counter = n,
                          !.backend_map =
                              IF data.backendDOMNodeId # 0
                              THEN Put(@, data.backendDOMNodeId, uid) ELSE @]
        kids == ParseChildren(data.childIds, lookup, s1)
        node == [ uid |-> uid, raw |-> data.nodeId, role |-> data.role,
                  name |-> data.name,
                  backend_node_id |-> data.backendDOMNodeId,
                  children |-> kids.nodes ]
    IN  [ node |-> node,
          snap |-> [kids.snap EXCEPT !.uid_map = Put(@, uid, node)] ]

\* snapshot.py 76-89: Snapshot.parse
Parse(s, nodes) ==
    LET cleared == [s EXCEPT !.uid_map = EmptyMap, !.backend_map = EmptyMap,
                             !.counter = 0]
    IN  IF nodes = <<>> THEN cleared
        ELSE LET r == ParseNode(nodes[1], Lookup(nodes), cleared)
             IN  [r.snap EXCEPT !.root = <<r.node>>]

validate_uidPrefixOnly(s, uid) == StartsWith(uid, VersionPrefix(s.version))

\* snapshot.py 150-154: Snapshot.validate_uid
validate_uid(s, uid) ==
    IF ~StartsWith(uid, VersionPrefix(s.version)) THEN FALSE
    ELSE uid \in DOMAIN s.uid_map

\* snapshot.py 145-148: Snapshot.backend_id (0: None)
backend_id(s, uid) ==
    IF uid \in DOMAIN s.uid_map THEN s.uid_map[uid].backend_node_id ELSE 0

\* snapshot.py 205-206: Snapshot.__len__
SnapLen(s) == Cardinality(DOMAIN s.uid_map)

-----------------------------------------------------------------------------
(* utils.py *)

HalfFloor(n) == n \div 2

\* int(x / 2): float division, truncated toward zero
HalfTrunc(n) == IF n >= 0 THEN n \div 2 ELSE -((-n) \div 2)

\* utils.py 10-28: box_center (<<>>: None)
box_center(content) ==
    IF content = <<>> \/ Len(content) < 8 THEN <<>>
    ELSE << <<HalfTrunc(content[1] + content[5]), HalfTrunc(content[2] + content[6])>> >>

-----------------------------------------------------------------------------
(* SnapshotManager (snapshot.py 209-319).                                   *)
(* The manager is mgr = [version, current]. An identifier-addressed action  *)
(* returns [mgr, result, trace]: the manager after the call, what the call  *)
(* returned or raised, and the transport commands and settle-wait steps it  *)
(* ran, in order. The transport's answers are the call's env argument.      *)

NoSnapshotMsg == <<"No snapshot. Call take() first.">>
StaleMsg(uid, v) ==
    <<"Stale UID '">> \o uid \o <<"'. Current snapshot is v">> \o Dec(v)
        \o <<". Call snapshot() for fresh UIDs.">>
NoBackendMsg(uid) == <<"Element '">> \o uid \o <<"' has no backend node ID">>

Raise(type, msg) == [kind |-> "raise", type |-> type, msg |-> msg, value |-> 0]
Return(v)        == [kind |-> "return", type |-> "", msg |-> <<>>, value |-> v]

SendStep(method) == [k |-> "send", what |-> method]
WaitStep(step)   == [k |-> "wait", what |-> step]

get_elementNoValidate(mgr, uid) ==
    IF mgr.current = <<>> THEN Raise("ValueError", NoSnapshotMsg)
    ELSE IF backend_id(mgr.current[1], uid) = 0
    THEN Raise("ValueError", NoBackendMsg(uid))
    ELSE Return(backend_id(mgr.current[1], uid))

\* snapshot.py 236-248: SnapshotManager.get_element
get_element(mgr, uid) ==
    IF mgr.current = <<>> THEN Raise("ValueError", NoSnapshotMsg)
    ELSE IF ~validate_uid(mgr.current[1], uid)
    THEN Raise("ValueError", StaleMsg(uid, mgr.current[1].version))
    ELSE IF backend_id(mgr.current[1], uid) = 0
    THEN Raise("ValueError", NoBackendMsg(uid))
    ELSE Return(backend_id(mgr.current[1], uid))

\* what the transport answers during one action
Quad == <<0, 0, 10, 0, 10, 10, 0, 10>>
Answers == [resolve : {"object", "no object", "error"},
            box     : {"quad", "no box", "error"},
            input   : {"ok", "error"}]
\* the answers each action reads
ClickEnvs == Answers
TypeEnvs  == {e \in Answers : e.box = "quad"}
FocusEnvs == {e \in Answers : e.box = "quad" /\ e.resolve = "object"}
HoverEnvs == {e \in Answers : e.resolve = "object"}

CdpError == Raise("RuntimeError", <<"CDP: ">>)

\* wait.py 124-157: WaitForHelper.wait_after_action, after the action returned;
\* each wait is one Runtime.evaluate round trip (wait.py 40-122, browser.py 178-194)
SettleWait ==
    << WaitStep("navigation_detect"),
       WaitStep("wait_for_navigation"), SendStep("Runtime.evaluate"),
       WaitStep("wait_for_stable_dom"), SendStep("Runtime.evaluate") >>

\* wait.py 124-157: an action that raised runs no wait step
AfterAction(act) ==
    IF act.result.kind = "raise" THEN act
    ELSE [act EXCEPT !.trace = @ \o SettleWait]

\* browser.py 652-661: Browser.mouse_click, clicks = 1
MouseClick == << SendStep("Input.dispatchMouseEvent"), SendStep("Input.dispatchMouseEvent") >>

\* snapshot.py 254-270: do_click
do_click(env) ==
    LET t1 == <<SendStep("DOM.resolveNode")>>
        t2 == t1 \o <<SendStep("DOM.getBoxModel")>>
        center == box_center(IF env.box = "quad" THEN Quad ELSE <<>>)
    IN  IF env.resolve = "error" THEN [result |-> CdpError, trace |-> t1]
        ELSE IF env.resolve = "no object" THEN [result |-> Return(FALSE), trace |-> t1]
        ELSE IF env.box = "error" THEN [result |-> CdpError, trace |-> t2]
        ELSE IF center # <<>>
        THEN IF env.input = "error"
             THEN [result |-> CdpError, trace |-> t2 \o SubSeq(MouseClick, 1, 1)]
             ELSE [result |-> Return(TRUE), trace |-> t2 \o MouseClick]
        ELSE IF env.input = "error"
             THEN [result |-> CdpError, trace |-> t2 \o <<SendStep("Runtime.callFunctionOn")>>]
             ELSE [result |-> Return(TRUE), trace |-> t2 \o <<SendStep("Runtime.callFunctionOn")>>]

\* snapshot.py 278-292: do_type
do_type(env) ==
    LET t1 == <<SendStep("DOM.resolveNode")>>
        t2 == t1 \o <<SendStep("Runtime.callFunctionOn")>>
    IN  IF env.resolve = "error" THEN [result |-> CdpError, trace |-> t1]
        ELSE IF env.resolve = "no object" THEN [result |-> Return(FALSE), trace |-> t1]
        ELSE IF env.input = "error" THEN [result |-> CdpError, trace |-> t2]
        ELSE [result |-> Return(TRUE), trace |-> t2]

Failed(mgr, r) == [mgr |-> mgr, result |-> r, trace |-> <<>>]
Acted(mgr, act) == [mgr |-> mgr, result |-> act.result, trace |-> act.trace]

clickResolvesFirst(mgr, uid, env) ==
    LET got == get_element(mgr, uid)
    IN  IF got.kind = "raise"
        THEN [mgr |-> mgr, result |-> got, trace |-> <<SendStep("DOM.resolveNode")>>]
        ELSE Acted(mgr, AfterAction(do_click(env)))

\* snapshot.py 250-272: SnapshotManager.click
click(mgr, uid, env) ==
    LET got == get_element(mgr, uid)
    IN  IF got.kind = "raise" THEN Failed(mgr, got)
        ELSE Acted(mgr, AfterAction(do_click(env)))

\* snapshot.py 274-294: SnapshotManager.type_text
type_text(mgr, uid, env) ==
    LET got == get_element(mgr, uid)
    IN  IF got.kind = "raise" THEN Failed(mgr, got)
        ELSE Acted(mgr, AfterAction(do_type(env)))

\* snapshot.py 296-300: SnapshotManager.focus
focus(mgr, uid, env) ==
    LET got == get_element(mgr, uid)
    IN  IF got.kind = "raise" THEN Failed(mgr, got)
        ELSE Acted(mgr, [ result |-> IF env.input = "error" THEN CdpError ELSE Return(TRUE),
                          trace  |-> <<SendStep("DOM.focus")>> ])

\* snapshot.py 302-311: SnapshotManager.hover; browser.py 647-650: mouse_move
hover(mgr, uid, env) ==
    LET got == get_element(mgr, uid)
        t1  == <<SendStep("DOM.getBoxModel")>>
        center == box_center(IF env.box = "quad" THEN Quad ELSE <<>>)
    IN  IF got.kind = "raise" THEN Failed(mgr, got)
        ELSE Acted(mgr,
               IF env.box = "error" THEN [result |-> CdpError, trace |-> t1]
               ELSE IF center = <<>> THEN [result |-> Return(FALSE), trace |-> t1]
               ELSE IF env.input = "error"
               THEN [result |-> CdpError, trace |-> t1 \o <<SendStep("Input.dispatchMouseEvent")>>]
               ELSE [result |-> Return(TRUE), trace |-> t1 \o <<SendStep("Input.dispatchMouseEvent")>>])

NextVersionSame(v) == v

\* snapshot.py 230: self._version += 1
NextVersion(v) == v + 1

-----------------------------------------------------------------------------
(* Initial values of the three parts of the state. *)

Events == {"Fetch.requestPaused", "Page.loadEventFired"}

\* browser.py 76: websocket.create_connection(ws_url, timeout=60), in ms
SocketTimeout == 60000

\* no wait_after_action call yet
NoPage == [ready |-> "complete", muts |-> {}, churn |-> FALSE, root |-> TRUE]

NoOp == [ op |-> "none", uid |-> <<>>, result |-> Return(0), trace |-> <<>>,
          before |-> [version |-> 0, current |-> <<>>] ]

\* snapshot.py 216-220: SnapshotManager.__init__; browser.py 30-35: CDP.__init__;
\* raws: the raw trees Snapshot.parse is applied to
Init(raws) ==
    /\ version = 0
    /\ current = <<>>
    /\ pc = "idle"
    /\ lastOp = NoOp
    /\ takes = 0
    /\ minted = {}
    /\ lastComplete = <<>>
    /\ curRaw = <<>>
    /\ sameRaw = FALSE
    /\ rawIn \in raws
    /\ parsed = <<>>
    /\ ws = "closed"
    /\ cdpId = 0
    /\ callbacks = [e \in Events |-> <<>>]
    /\ stack = <<>>
    /\ wire = <<>>
    /\ owed = {}
    /\ nEvents = 0
    /\ rets = EmptyMap
    /\ passedOver = {}
    /\ wpc = "idle"
    /\ aborted = FALSE
    /\ page = NoPage
    /\ wres = <<>>
    /\ wclock = 0
    /\ wlog = <<>>
    /\ abortAt = <<>>
    /\ targets = <<>>
    /\ pageFilter = <<>>
    /\ connRes = <<>>
    /\ closes = <<>>
    /\ pollSt = <<>>
    /\ sockTimeout = SocketTimeout
    /\ lastPoll = <<>>
    /\ fmtIn = <<>>
    /\ fmtOut = <<>>
    /\ boxCall = <<>>
    /\ tpc = [t \in {"caller", "timer"} |-> IF t = "caller" THEN "idle" ELSE "none"]
    /\ recording = FALSE
    /\ nCalls = 0
    /\ nPolls = [t \in {"caller", "timer"} |-> 0]
    /\ sendId = 0
    /\ idStage = [t \in {"caller", "timer"} |-> 0]
    /\ loaded = [t \in {"caller", "timer"} |-> 0]
    /\ wrote = <<>>
    /\ resetAt = <<>>
    /\ axTree = <<>>
    /\ took = <<>>
    /\ stopPc = "idle"
    /\ sock = <<>>
    /\ stopOn = FALSE
    /\ observed = <<>>
    /\ arrival = <<>>
    /\ colEnabled = FALSE
    /\ colHandlers = 0
    /\ colDomain = FALSE
    /\ colMessages = <<>>
    /\ colCalls = 0
    /\ colEvents = 0

-----------------------------------------------------------------------------
(* The snapshot manager driven by one caller.                               *)
(* take() is two steps, split where it blocks on the transport:             *)
(* TakeBegin is snapshot.py 230-231 and the sending of                      *)
(* Accessibility.getFullAXTree, TakeFinish is the reply and 233-234,        *)
(* TakeFail is the query raising (browser.py 101-103, or the socket).       *)

Mgr == [version |-> version, current |-> current]

TableOf(cur) == IF cur = <<>> THEN {} ELSE DOMAIN cur[1].uid_map

SnapOnly == UNCHANGED <<parseVars, cdpVars, waitVars, connVars, pollVars, fmtVars, boxVars, traceVars, ctxVars, takeVars, stopVars, colVars>>

\* the transport answers only when the action gets as far as asking it
Asked(uid, envs) ==
    IF get_element(Mgr, uid).kind = "raise"
    THEN {[resolve |-> "object", box |-> "quad", input |-> "ok"]}
    ELSE envs

\* identifiers a caller may pass: everything handed out so far, plus strings
\* that were never handed out
UidInputs ==
    { m.uid : m \in minted }
        \cup { <<>>, <<"x">>, <<"1">>, VersionPrefix(version),
               Uid(version, MaxSnapNodes + 1), Uid(version + 1, 1) }

TakeBegin ==
    /\ SnapOnly
    /\ pc = "idle"
    /\ takes < MaxTakes
    /\ version' = NextVersion(version)
    /\ current' = <<NewSnapshot(version')>>
    /\ pc' = "query"
    /\ takes' = takes + 1
    /\ lastOp' = NoOp
    /\ UNCHANGED <<minted, lastComplete, curRaw, sameRaw>>

TakeFinish(raw) ==
    /\ SnapOnly
    /\ pc = "query"
    /\ current' = <<Parse(current[1], raw)>>
    /\ pc' = "idle"
    /\ minted' = minted \cup
          { [take |-> takes, ver |-> current'[1].version, uid |-> u] :
              u \in DOMAIN current'[1].uid_map }
    /\ lastComplete' = current'
    /\ sameRaw' = (lastComplete # <<>> /\ raw = curRaw)
    /\ curRaw' = raw
    /\ UNCHANGED <<version, lastOp, takes>>

TakeFail ==
    /\ SnapOnly
    /\ pc = "query"
    /\ pc' = "idle"
    /\ UNCHANGED <<version, current, lastOp, takes, minted, lastComplete, curRaw, sameRaw>>

Did(op, uid, r) ==
    /\ version' = r.mgr.version
    /\ current' = r.mgr.current
    /\ lastOp' = [ op |-> op, uid |-> uid, result |-> r.result, trace |-> r.trace,
                   before |-> Mgr ]
    /\ UNCHANGED <<pc, takes, minted, lastComplete, curRaw, sameRaw>>

GetElement(uid) ==
    /\ SnapOnly
    /\ pc = "idle"
    /\ lastOp = NoOp
    /\ Did("get_element", uid, [mgr |-> Mgr, result |-> get_element(Mgr, uid), trace |-> <<>>])

Click(uid, env) ==
    /\ SnapOnly
    /\ pc = "idle"
    /\ lastOp = NoOp
    /\ Did("click", uid, click(Mgr, uid, env))

TypeText(uid, env) ==
    /\ SnapOnly
    /\ pc = "idle"
    /\ lastOp = NoOp
    /\ Did("type_text", uid, type_text(Mgr, uid, env))

Focus(uid, env) ==
    /\ SnapOnly
    /\ pc = "idle"
    /\ lastOp = NoOp
    /\ Did("focus", uid, focus(Mgr, uid, env))

Hover(uid, env) ==
    /\ SnapOnly
    /\ pc = "idle"
    /\ lastOp = NoOp
    /\ Did("hover", uid, hover(Mgr, uid, env))

\* the caller has read the outcome of its last call and goes on
Resume ==
    /\ SnapOnly
    /\ lastOp # NoOp
    /\ lastOp' = NoOp
    /\ UNCHANGED <<version, current, pc, takes, minted, lastComplete, curRaw, sameRaw>>

SnapNext ==
    \/ TakeBegin
    \/ \E raw \in SnapTrees : TakeFinish(raw)
    \/ TakeFail
    \/ Resume
    \/ \E uid \in UidInputs : GetElement(uid)
    \/ \E uid \in UidInputs : \E env \in Asked(uid, ClickEnvs) : Click(uid, env)
    \/ \E uid \in UidInputs : \E env \in Asked(uid, TypeEnvs) : TypeText(uid, env)
    \/ \E uid \in UidInputs : \E env \in Asked(uid, FocusEnvs) : Focus(uid, env)
    \/ \E uid \in UidInputs : \E env \in Asked(uid, HoverEnvs) : Hover(uid, env)

SpecSnap == Init({<<>>}) /\ [][SnapNext]_vars

\* context.py 83-90 and 30-38: BrowserContext.reset() drops the manager; the
\* next use of ctx.snapshot_mgr makes a new SnapshotManager
\* (snapshot.py 216-220: no snapshot, version 0)
Reset ==
    /\ UNCHANGED <<parseVars, cdpVars, waitVars, connVars, pollVars, fmtVars, boxVars, traceVars,
                   takeVars, stopVars, colVars>>
    /\ pc = "idle" /\ resetAt = <<>>
    /\ version' = 0
    /\ current' = <<>>
    /\ lastOp' = NoOp
    /\ resetAt' = <<takes>>
    /\ UNCHANGED <<pc, takes, minted, lastComplete, curRaw, sameRaw>>

CtxNext ==
    \/ SnapNext
    \/ Reset

\* the snapshot manager reached through one BrowserContext
SpecCtx == Init({<<>>}) /\ [][CtxNext]_vars

-----------------------------------------------------------------------------
(* Snapshot.parse as a function of the raw tree. *)

DoParse(v) ==
    /\ UNCHANGED <<snapVars, cdpVars, waitVars, connVars, pollVars, fmtVars, boxVars, traceVars, ctxVars, takeVars, stopVars, colVars>>
    /\ parsed = <<>>
    /\ parsed' = <<Parse(NewSnapshot(v), rawIn)>>
    /\ UNCHANGED rawIn

ParseNext == \E v \in 1..2 : DoParse(v)

SpecParse == Init(RawTrees) /\ [][ParseNext]_vars

-----------------------------------------------------------------------------
(* WaitForHelper (wait.py 23-157).                                          *)
(* Times are milliseconds. A page is [ready, muts, churn, root]:            *)
(*   ready: "complete", "loading" (the load event comes LoadAfter ms after  *)
(*          the navigation script starts) or "stuck" (no load event);       *)
(*   muts:  the times, counted from the start of the DOM script, at which   *)
(*          the DOM mutates;                                                *)
(*   churn: the DOM mutates without a pause of a quiet window;              *)
(*   root:  document.body or document.documentElement exists.               *)
(* The transport's answer to a Runtime.evaluate is "value" (a result with   *)
(* the value the promise resolved to), "no value" (a result object without  *)
(* a value), "empty" (send() gave {} after its receive loop ran out),       *)
(* "error" (an error reply) or "recv failed" (the socket timed out).        *)

\* wait.py 17: stable_dom_timeout, as int(x * 1000)
StableDomTimeout == 3000
\* wait.py 18: stable_dom_for, as int(x * 1000)
StableDomFor == 100
\* wait.py 19: navigation_timeout, as int(x * 1000)
NavigationTimeout == 3000
\* wait.py 20: navigation_detect, in ms
NavigationDetect == 100

\* when a loading page fires its load event
LoadAfter == 500
MutTimes == {40, 120, 180}

Pages == [ ready : {"complete", "loading", "stuck"}, muts : SUBSET MutTimes,
           churn : BOOLEAN, root : BOOLEAN ]

EvalAnswers == {"value", "no value", "empty", "error", "recv failed"}

NavigationScriptNoShortcut(pg) ==
    IF pg.ready = "loading" /\ LoadAfter < NavigationTimeout
    THEN [t |-> LoadAfter, v |-> TRUE]
    ELSE [t |-> NavigationTimeout, v |-> pg.ready = "complete"]

\* wait.py 98-116: when the navigation promise resolves, and to what
NavigationScript(pg) ==
    IF pg.ready = "complete" THEN [t |-> 0, v |-> TRUE]
    ELSE IF pg.ready = "loading" /\ LoadAfter < NavigationTimeout
    THEN [t |-> LoadAfter, v |-> TRUE]
    ELSE [t |-> NavigationTimeout, v |-> FALSE]

\* a timer that a mutation does not move
QuietAtNoRestart(e, muts) == e

RECURSIVE QuietAt(_, _)
\* wait.py 53-65: when the quiet-window timer fires; e is its pending expiry,
\* muts the mutations still to come: a mutation before e moves e
QuietAt(e, muts) ==
    IF muts = {} THEN e
    ELSE LET m == CHOOSE x \in muts : \A y \in muts : x <= y
         IN  IF m < e THEN QuietAt(m + StableDomFor, muts \ {m}) ELSE e

\* wait.py 48-83: when the DOM promise resolves, and to what
StableDomScript(pg) ==
    IF ~pg.root THEN [t |-> 0, v |-> TRUE]
    ELSE IF pg.churn THEN [t |-> StableDomTimeout, v |-> FALSE]
    ELSE LET e == QuietAt(StableDomFor, pg.muts)
         IN  IF e < StableDomTimeout THEN [t |-> e, v |-> TRUE]
             ELSE [t |-> StableDomTimeout, v |-> FALSE]

\* browser.py 178-194: Browser.eval of a script whose promise resolves as
\* script says; the value is Optional (<<>>: None)
eval(script, answer) ==
    CASE answer = "value"       -> Return(<<script.v>>)
      [] answer = "no value"    -> Return(<<>>)
      [] answer = "empty"       -> Return(<<>>)
      [] answer = "error"       -> CdpError
      [] answer = "recv failed" -> Raise("WebSocketTimeoutException", <<>>)

\* how long the round trip takes: the promise's time, the socket timeout, or
\* (for answers that do not wait for the promise) nothing
EvalTime(script, answer) ==
    CASE answer = "value"       -> script.t
      [] answer = "recv failed" -> SocketTimeout
      [] OTHER                  -> 0

\* wait.py 85-88, 119-122: try: return self.browser.eval(...)
\*                         except Exception: return False
Guarded(r) == IF r.kind = "raise" THEN <<FALSE>> ELSE r.value

\* wait.py 90-122
wait_for_navigation(pg, answer) == Guarded(eval(NavigationScript(pg), answer))

\* wait.py 40-88
wait_for_stable_dom(pg, answer) == Guarded(eval(StableDomScript(pg), answer))

WaitOnly == UNCHANGED <<snapVars, parseVars, cdpVars, connVars, pollVars, fmtVars, boxVars, traceVars, ctxVars, takeVars, stopVars, colVars>>

Logged(step, answer, ret) == [step |-> step, answer |-> answer, ret |-> ret]

\* a caller calls wait_after_action(action) on a page that will behave as pg
WaitCall(pg) ==
    /\ WaitOnly
    /\ wpc = "idle"
    /\ wpc' = "entered"
    /\ page' = pg
    /\ UNCHANGED <<aborted, wres, wclock, wlog, abortAt>>

\* wait.py 36-38: abort(), from another thread
Abort ==
    /\ WaitOnly
    /\ ~aborted /\ wpc # "done"
    /\ aborted' = TRUE
    /\ abortAt' = IF abortAt = <<>> /\ wpc # "idle"
                  THEN <<[pc |-> wpc, clock |-> wclock]>> ELSE abortAt
    /\ UNCHANGED <<wpc, page, wres, wclock, wlog>>

\* wait.py 134, 137: self._aborted = False; the action starts
WaitBegin ==
    /\ WaitOnly
    /\ wpc = "entered"
    /\ aborted' = FALSE
    /\ wpc' = "action"
    /\ UNCHANGED <<page, wres, wclock, wlog, abortAt>>

\* an action whose exception is swallowed: the waits run all the same
ActionEndsWaitsAnyway(out) ==
    /\ WaitOnly
    /\ wpc = "action"
    /\ wres' = <<out>>
    /\ wlog' = Append(wlog, Logged("action", "", <<>>))
    /\ wpc' = IF aborted THEN "done" ELSE "sleep"
    /\ UNCHANGED <<aborted, page, wclock, abortAt>>

\* wait.py 137-143: the action ends with out; if it raised, so does
\* wait_after_action; otherwise result = out and the flag is read
ActionEnds(out) ==
    /\ WaitOnly
    /\ wpc = "action"
    /\ wres' = <<out>>
    /\ wlog' = Append(wlog, Logged("action", "", <<>>))
    /\ wpc' = IF out.kind = "raise" \/ aborted THEN "done" ELSE "sleep"
    /\ UNCHANGED <<aborted, page, wclock, abortAt>>

\* wait.py 143-149: time.sleep(navigation_detect) ends; the flag is read
SleepEnds ==
    /\ WaitOnly
    /\ wpc = "sleep"
    /\ wclock' = wclock + NavigationDetect
    /\ wlog' = Append(wlog, Logged("sleep", "", <<>>))
    /\ wpc' = IF aborted THEN "done" ELSE "nav"
    /\ UNCHANGED <<aborted, page, wres, abortAt>>

\* wait.py 149-155: wait_for_navigation() ends; the flag is read
NavEnds(answer) ==
    /\ WaitOnly
    /\ wpc = "nav"
    /\ wclock' = wclock + EvalTime(NavigationScript(page), answer)
    /\ wlog' = Append(wlog, Logged("wait_for_navigation", answer,
                                   wait_for_navigation(page, answer)))
    /\ wpc' = IF aborted THEN "done" ELSE "dom"
    /\ UNCHANGED <<aborted, page, wres, abortAt>>

\* a DOM wait whose script has no overall timer: on a page that never pauses
\* the promise stays pending
DomEndsWithoutOverallTimer(answer) ==
    /\ WaitOnly
    /\ wpc = "dom" /\ ~page.churn
    /\ wclock' = wclock + EvalTime(StableDomScript(page), answer)
    /\ wlog' = Append(wlog, Logged("wait_for_stable_dom", answer,
                                   wait_for_stable_dom(page, answer)))
    /\ wpc' = "done"
    /\ UNCHANGED <<aborted, page, wres, abortAt>>

\* wait.py 155-157: wait_for_stable_dom() ends; return result
DomEnds(answer) ==
    /\ WaitOnly
    /\ wpc = "dom"
    /\ wclock' = wclock + EvalTime(StableDomScript(page), answer)
    /\ wlog' = Append(wlog, Logged("wait_for_stable_dom", answer,
                                   wait_for_stable_dom(page, answer)))
    /\ wpc' = "done"
    /\ UNCHANGED <<aborted, page, wres, abortAt>>

WaitNext ==
    \/ \E pg \in Pages : WaitCall(pg)
    \/ Abort
    \/ WaitBegin
    \/ \E out \in {Return(TRUE), Return(FALSE), CdpError} : ActionEnds(out)
    \/ SleepEnds
    \/ \E answer \in EvalAnswers : NavEnds(answer)
    \/ \E answer \in EvalAnswers : DomEnds(answer)

SpecWait == Init({<<>>}) /\ [][WaitNext]_vars

\* The calling thread keeps running; the action ends (wait.py 137), the sleep
\* ends (wait.py 143), and each Runtime.evaluate round trip is answered
\* (browser.py 178-194).
WaitFair ==
    /\ WF_vars(WaitBegin)
    /\ WF_vars(\E out \in {Return(TRUE), Return(FALSE), CdpError} : ActionEnds(out))
    /\ WF_vars(SleepEnds)
    /\ WF_vars(\E answer \in EvalAnswers : NavEnds(answer))
    /\ WF_vars(\E answer \in EvalAnswers : DomEnds(answer))

SpecWaitLive == SpecWait /\ WaitFair

-----------------------------------------------------------------------------
(* Snapshot.format (snapshot.py 156-199).                                   *)
(* The tree to render is an array of nodes [par, role, name, value]: node 1 *)
(* is the root (par = 0), the parent of node i > 1 is a node before it, and *)
(* the children of a node are in ascending order. Names and values are      *)
(* sequences of characters; the text returned is one sequence of strings,   *)
(* lines separated by "\n". The state labels, level and url parts of a      *)
(* line are left out: they add words to a line and no line break.           *)

\* snapshot.py 156: max_depth: int = 50
MaxDepthDefault == 50
\* snapshot.py 174: node.name[:80]
NameCut == 80
\* snapshot.py 178: node.value[:30]
ValueCut == 30

NoiseRoles == {"none", "generic", "InlineTextBox"}
ValueRoles == {"textbox", "combobox", "spinbutton", "slider"}

FmtKind(role, name, value) == [role |-> role, name |-> name, value |-> value]

\* the nodes rendered: wrappers with and without a name, buttons, a name
\* with a line break, a one-line input and a multi-line input
FmtKinds ==
    { FmtKind("generic", <<>>, <<>>), FmtKind("generic", <<"G", "o">>, <<>>),
      FmtKind("button", <<"G", "o">>, <<>>), FmtKind("button", <<>>, <<>>),
      FmtKind("button", <<"a", "\n", "b">>, <<>>),
      FmtKind("textbox", <<>>, <<"x">>),
      FmtKind("textbox", <<"T">>, <<"l", "\n", "m">>) }

FmtParents(n) ==
    { p \in [1..n -> 0..n] :
        \A i \in 1..n : IF i = 1 THEN p[i] = 0 ELSE p[i] \in 1..(i - 1) }

FmtTrees ==
    UNION { { [i \in 1..n |-> [par |-> p[i], role |-> a[i].role, name |-> a[i].name,
                               value |-> a[i].value]] :
                p \in FmtParents(n),
                a \in [1..n -> FmtKinds] } :
            n \in 0..MaxFmtNodes }

FmtChildren(t, i) == Ascending({ j \in DOMAIN t : t[j].par = i })

Cut(s, n) == SubSeq(s, 1, IF Len(s) < n THEN Len(s) ELSE n)

\* str.replace("\n", " ")
NoNewline(s) == [k \in 1..Len(s) |-> IF s[k] = "\n" THEN " " ELSE s[k]]

RECURSIVE Indent(_)
Indent(depth) == IF depth = 0 THEN <<>> ELSE <<"  ">> \o Indent(depth - 1)

\* f"[{node.uid}]" for node i
FmtUid(i) == <<"[">> \o Uid(1, i) \o <<"]">>

\* snapshot.py 171-195: the line of a node
FmtLine(t, i, depth) ==
    Indent(depth) \o FmtUid(i) \o <<" ", t[i].role>>
        \o (IF t[i].name # <<>>
            THEN <<" ", "\"">> \o NoNewline(Cut(t[i].name, NameCut)) \o <<"\"">>
                 \o (IF Len(t[i].name) > NameCut THEN <<"...">> ELSE <<>>)
            ELSE <<>>)
        \o (IF t[i].value # <<>> /\ t[i].role \in ValueRoles
            THEN <<" ", "val=">> \o Cut(t[i].value, ValueCut)
            ELSE <<>>)

RECURSIVE Fmt(_, _, _, _, _)
RECURSIVE FmtEach(_, _, _, _, _)

\* snapshot.py 196-199 and 166-168: for c in node.children: self._fmt(c, ...)
FmtEach(t, kids, depth, verbose, max_depth) ==
    IF kids = <<>> THEN <<>>
    ELSE Fmt(t, Head(kids), depth, verbose, max_depth)
             \o FmtEach(t, Tail(kids), depth, verbose, max_depth)

\* snapshot.py 163-199: Snapshot._fmt, the lines it appends
Fmt(t, i, depth, verbose, max_depth) ==
    IF depth > max_depth THEN <<>>
    ELSE IF t[i].role \in NoiseRoles /\ t[i].name = <<>> /\ ~verbose
    THEN FmtEach(t, FmtChildren(t, i), depth, verbose, max_depth)
    ELSE <<FmtLine(t, i, depth)>>
             \o FmtEach(t, FmtChildren(t, i), depth + 1, verbose, max_depth)

\* "\n".join(lines)
RECURSIVE JoinLines(_)
JoinLines(lines) ==
    IF lines = <<>> THEN <<>>
    ELSE IF Len(lines) = 1 THEN lines[1]
    ELSE lines[1] \o <<"\n">> \o JoinLines(Tail(lines))

\* snapshot.py 156-161: Snapshot.format
format(t, verbose, max_depth) ==
    IF t = <<>> THEN <<"<empty>">>
    ELSE JoinLines(Fmt(t, 1, 0, verbose, max_depth))

FmtOnly == UNCHANGED <<snapVars, parseVars, cdpVars, waitVars, connVars, pollVars, boxVars, traceVars, ctxVars, takeVars, stopVars, colVars>>

\* a snapshot whose parse() built the tree t
HaveSnapshot ==
    /\ FmtOnly
    /\ fmtIn = <<>>
    /\ \E t \in FmtTrees : fmtIn' = <<t>>
    /\ UNCHANGED fmtOut

\* snapshot.py 156: snapshot.format(verbose)
Format(verbose) ==
    /\ FmtOnly
    /\ fmtIn # <<>> /\ fmtOut = <<>>
    /\ fmtOut' = <<[verbose |-> verbose, text |-> format(fmtIn[1], verbose, MaxDepthDefault)]>>
    /\ UNCHANGED fmtIn

FormatNext ==
    \/ HaveSnapshot
    \/ \E verbose \in BOOLEAN : Format(verbose)

SpecFormat == Init({<<>>}) /\ [][FormatNext]_vars

-----------------------------------------------------------------------------
(* SnapshotManager.take as a whole (snapshot.py 228-234): the version, the  *)
(* parse of the answered tree, the text and the node count it returns. The  *)
(* page does not change between the calls.                                  *)

TakeTrees == UNION { RawTreesOf(n, {0, 1}, {FALSE}) : n \in 0..MaxTakeNodes }

\* a line that carries the snapshot's version a second time
NodeLineStamped(node, depth) ==
    Indent(depth) \o <<"[">> \o node.uid \o <<"]", " ", node.role>> \o node.uid

\* snapshot.py 171-175, 195: the line of a parsed node (role and name are the
\* only attributes the answered trees carry)
NodeLine(node, depth) ==
    Indent(depth) \o <<"[">> \o node.uid \o <<"]", " ", node.role>>
        \o (IF node.name # "" THEN <<" ", "\"", node.name, "\"">> ELSE <<>>)

RECURSIVE FmtNode(_, _, _, _)
RECURSIVE FmtNodes(_, _, _, _)

\* snapshot.py 166-168, 196-199: for c in node.children: self._fmt(c, ...)
FmtNodes(nodes, depth, verbose, max_depth) ==
    IF nodes = <<>> THEN <<>>
    ELSE FmtNode(Head(nodes), depth, verbose, max_depth)
             \o FmtNodes(Tail(nodes), depth, verbose, max_depth)

\* snapshot.py 163-199: Snapshot._fmt on a parsed node, the lines it appends
FmtNode(node, depth, verbose, max_depth) ==
    IF depth > max_depth THEN <<>>
    ELSE IF node.role \in NoiseRoles /\ node.name = "" /\ ~verbose
    THEN FmtNodes(node.children, depth, verbose, max_depth)
    ELSE <<NodeLine(node, depth)>>
             \o FmtNodes(node.children, depth + 1, verbose, max_depth)

\* snapshot.py 156-161: Snapshot.format of a parsed snapshot
formatSnapshot(s, verbose) ==
    IF s.root = <<>> THEN <<"<empty>">>
    ELSE JoinLines(FmtNode(s.root[1], 0, verbose, MaxDepthDefault))

TakeOnly == UNCHANGED <<parseVars, cdpVars, waitVars, connVars, pollVars, fmtVars, boxVars,
                        traceVars, ctxVars, stopVars, colVars>>

\* the page whose tree the browser answers with
LoadPage ==
    /\ TakeOnly
    /\ axTree = <<>>
    /\ \E raw \in TakeTrees : axTree' = <<raw>>
    /\ UNCHANGED <<snapVars, took>>

\* a take() that counts the nodes it rendered
TakeCountsLines(verbose) ==
    /\ TakeOnly
    /\ axTree # <<>> /\ Len(took) < MaxTook
    /\ version' = NextVersion(version)
    /\ current' = <<Parse(NewSnapshot(version'), axTree[1])>>
    /\ took' = Append(took,
          [ verbose |-> verbose, version |-> version',
            text  |-> formatSnapshot(current'[1], verbose),
            count |-> IF current'[1].root = <<>> THEN 0
                      ELSE Len(FmtNode(current'[1].root[1], 0, verbose, MaxDepthDefault)),
            snap  |-> current'[1] ])
    /\ UNCHANGED <<pc, lastOp, takes, minted, lastComplete, curRaw, sameRaw, axTree>>

\* snapshot.py 228-234: take(verbose), the query answered with the tree
Take(verbose) ==
    /\ TakeOnly
    /\ axTree # <<>> /\ Len(took) < MaxTook
    /\ version' = NextVersion(version)
    /\ current' = <<Parse(NewSnapshot(version'), axTree[1])>>
    /\ took' = Append(took, [ verbose |-> verbose, version |-> version',
                              text  |-> formatSnapshot(current'[1], verbose),
                              count |-> SnapLen(current'[1]),
                              snap  |-> current'[1] ])
    /\ UNCHANGED <<pc, lastOp, takes, minted, lastComplete, curRaw, sameRaw, axTree>>

TakeNext ==
    \/ LoadPage
    \/ \E verbose \in BOOLEAN : Take(verbose)

SpecTake == Init({<<>>}) /\ [][TakeNext]_vars

-----------------------------------------------------------------------------
(* box_center as a function (utils.py 10-28).                               *)

\* the content arrays given: the corners (x1, y1), (x2, y1), (x2, y2),
\* (x1, y2) of a box and one more number, cut to every length, and the quad
\* of the snapshot manager's model
BoxInputs ==
    { Cut(<<x1, y1, x2, y1, x2, y2, x1, y2, 0>>, n) :
          x1 \in -MaxCoord..MaxCoord, y1 \in -MaxCoord..MaxCoord,
          x2 \in -MaxCoord..MaxCoord, y2 \in -MaxCoord..MaxCoord, n \in 0..9 }
        \cup {Quad}

BoxOnly == UNCHANGED <<snapVars, parseVars, cdpVars, waitVars, connVars, pollVars, fmtVars, traceVars, ctxVars, takeVars, stopVars, colVars>>

\* utils.py 10: box_center(content)
BoxCenter ==
    /\ BoxOnly
    /\ boxCall = <<>>
    /\ \E content \in BoxInputs :
          boxCall' = <<[content |-> content, center |-> box_center(content)]>>

BoxNext == BoxCenter

SpecBox == Init({<<>>}) /\ [][BoxNext]_vars

-----------------------------------------------------------------------------
(* PerformanceTrace.start/stop and the threads that use one CDP object      *)
(* (trace.py 121-224, browser.py 79-131).                                   *)
(* The calling thread is at "idle", inside start()'s cdp.send               *)
(* ("start:send"), inside a command or poll of its own ("cmd:send",         *)
(* "cmd:poll"), or in stop(). The thread started by                         *)
(* start(auto_stop_seconds=...) is at "none" (not started), "armed" (to be  *)
(* started when start() gets there), "sleep", in stop(), or "done". A       *)
(* thread in stop() is inside cdp.send("Tracing.end") ("stop:send"), at the *)
(* head of the poll loop ("stop:wait"), inside cdp.poll ("stop:poll") or    *)
(* inside cdp.send("IO.read") ("stop:read").                                *)

Threads == {"caller", "timer"}

TraceOnly == UNCHANGED <<snapVars, parseVars, cdpVars, waitVars, connVars, pollVars, fmtVars, boxVars, ctxVars, takeVars, stopVars, colVars>>

\* the thread is inside CDP.send or CDP.poll
InsideCdp(t) ==
    tpc[t] \in {"start:send", "cmd:send", "cmd:poll", "stop:send", "stop:poll", "stop:read"}

\* the thread is inside CDP.send
InsideSend(t) == tpc[t] \in {"start:send", "cmd:send", "stop:send", "stop:read"}

\* the call the thread is in can return: a poll, or a send that wrote its
\* message (and received its reply)
SendOver(t) == InsideSend(t) => idStage[t] = 3

\* browser.py 84: self._id += 1, the read of self._id
SendLoadsId(t) ==
    /\ TraceOnly
    /\ InsideSend(t) /\ idStage[t] = 0 /\ sendId < MaxSendId
    /\ loaded' = [loaded EXCEPT ![t] = sendId]
    /\ idStage' = [idStage EXCEPT ![t] = 1]
    /\ UNCHANGED <<tpc, recording, nCalls, nPolls, sendId, wrote>>

\* browser.py 84: self._id += 1, the write of the sum
SendStoresId(t) ==
    /\ TraceOnly
    /\ InsideSend(t) /\ idStage[t] = 1
    /\ sendId' = loaded[t] + 1
    /\ idStage' = [idStage EXCEPT ![t] = 2]
    /\ UNCHANGED <<tpc, recording, nCalls, nPolls, loaded, wrote>>

\* browser.py 85-88: msg = {"id": self._id, ...}; self._ws.send(...)
SendWrites(t) ==
    /\ TraceOnly
    /\ InsideSend(t) /\ idStage[t] = 2
    /\ wrote' = Append(wrote, sendId)
    /\ idStage' = [idStage EXCEPT ![t] = 3]
    /\ UNCHANGED <<tpc, recording, nCalls, nPolls, sendId, loaded>>

\* where a thread is when its stop() has returned
Rest(t) == IF t = "caller" THEN "idle" ELSE "done"

\* trace.py 138-158: start() while not recording, up to cdp.send("Tracing.start")
Start(auto) ==
    /\ TraceOnly
    /\ tpc["caller"] = "idle" /\ ~recording /\ tpc["timer"] \in {"none", "done"}
    /\ tpc' = [tpc EXCEPT !["caller"] = "start:send",
                          !["timer"] = IF auto THEN "armed" ELSE @]
    /\ UNCHANGED <<recording, nCalls, nPolls>>
    /\ UNCHANGED idVars

\* trace.py 160-180: self._recording = True; the thread is started if
\* auto_stop_seconds was given
Started ==
    /\ TraceOnly
    /\ tpc["caller"] = "start:send"
    /\ recording' = TRUE
    /\ tpc' = [tpc EXCEPT !["caller"] = "idle",
                          !["timer"] = IF @ = "armed" THEN "sleep" ELSE @]
    /\ UNCHANGED <<nCalls, nPolls>>
    /\ SendOver("caller")
    /\ idStage' = [idStage EXCEPT !["caller"] = 0]
    /\ UNCHANGED <<sendId, loaded, wrote>>

\* any tool of the calling thread issues a command or polls (tools.py)
CallerCalls(what) ==
    /\ TraceOnly
    /\ tpc["caller"] = "idle" /\ nCalls < MaxCalls
    /\ tpc' = [tpc EXCEPT !["caller"] = what]
    /\ nCalls' = nCalls + 1
    /\ UNCHANGED <<recording, nPolls>>
    /\ UNCHANGED idVars

CallerReturns ==
    /\ TraceOnly
    /\ tpc["caller"] \in {"cmd:send", "cmd:poll"}
    /\ tpc' = [tpc EXCEPT !["caller"] = "idle"]
    /\ UNCHANGED <<recording, nCalls, nPolls>>
    /\ SendOver("caller")
    /\ idStage' = [idStage EXCEPT !["caller"] = 0]
    /\ UNCHANGED <<sendId, loaded, wrote>>

\* trace.py 174-177: time.sleep(auto_stop_seconds) is over;
\* if self._recording: self.stop()
TimerWakes ==
    /\ TraceOnly
    /\ tpc["timer"] = "sleep"
    /\ tpc' = [tpc EXCEPT !["timer"] = IF recording THEN "stop:send" ELSE "done"]
    /\ nPolls' = [nPolls EXCEPT !["timer"] = 0]
    /\ UNCHANGED <<recording, nCalls>>
    /\ UNCHANGED idVars

\* trace.py 189-196: the calling thread's stop() while recording, up to
\* cdp.send("Tracing.end")
CallerStops ==
    /\ TraceOnly
    /\ tpc["caller"] = "idle" /\ recording
    /\ tpc' = [tpc EXCEPT !["caller"] = "stop:send"]
    /\ nPolls' = [nPolls EXCEPT !["caller"] = 0]
    /\ UNCHANGED <<recording, nCalls>>
    /\ UNCHANGED idVars

\* trace.py 196-220: Tracing.end was sent; the handlers are registered
StopSent(t) ==
    /\ TraceOnly
    /\ tpc[t] = "stop:send"
    /\ tpc' = [tpc EXCEPT ![t] = "stop:wait"]
    /\ UNCHANGED <<recording, nCalls, nPolls>>
    /\ SendOver(t)
    /\ idStage' = [idStage EXCEPT ![t] = 0]
    /\ UNCHANGED <<sendId, loaded, wrote>>

\* trace.py 221-222: while not trace_complete and time.time() < timeout:
\* cdp.poll(0.1)
StopPolls(t) ==
    /\ TraceOnly
    /\ tpc[t] = "stop:wait" /\ nPolls[t] < MaxStopPolls
    /\ tpc' = [tpc EXCEPT ![t] = "stop:poll"]
    /\ nPolls' = [nPolls EXCEPT ![t] = @ + 1]
    /\ UNCHANGED <<recording, nCalls>>
    /\ UNCHANGED idVars

StopPolled(t) ==
    /\ TraceOnly
    /\ tpc[t] = "stop:poll"
    /\ tpc' = [tpc EXCEPT ![t] = "stop:wait"]
    /\ UNCHANGED <<recording, nCalls, nPolls>>
    /\ UNCHANGED idVars

\* trace.py 224-230: the loop is over; self._recording = False; with a
\* stream handle the trace is read with cdp.send("IO.read")
StopLoopEnds(t, stream) ==
    /\ TraceOnly
    /\ tpc[t] = "stop:wait"
    /\ recording' = FALSE
    /\ tpc' = [tpc EXCEPT ![t] = IF stream THEN "stop:read" ELSE Rest(t)]
    /\ UNCHANGED <<nCalls, nPolls>>
    /\ UNCHANGED idVars

\* trace.py 230-261: the stream was read; stop() returns
StopRead(t) ==
    /\ TraceOnly
    /\ tpc[t] = "stop:read"
    /\ tpc' = [tpc EXCEPT ![t] = Rest(t)]
    /\ UNCHANGED <<recording, nCalls, nPolls>>
    /\ SendOver(t)
    /\ idStage' = [idStage EXCEPT ![t] = 0]
    /\ UNCHANGED <<sendId, loaded, wrote>>

TraceNext ==
    \/ \E auto \in BOOLEAN : Start(auto)
    \/ Started
    \/ \E what \in {"cmd:send", "cmd:poll"} : CallerCalls(what)
    \/ CallerReturns
    \/ TimerWakes
    \/ CallerStops
    \/ \E t \in Threads : StopSent(t)
    \/ \E t \in Threads : StopPolls(t)
    \/ \E t \in Threads : StopPolled(t)
    \/ \E t \in Threads, stream \in BOOLEAN : StopLoopEnds(t, stream)
    \/ \E t \in Threads : StopRead(t)
    \/ \E t \in Threads : SendLoadsId(t)
    \/ \E t \in Threads : SendStoresId(t)
    \/ \E t \in Threads : SendWrites(t)

SpecTrace == Init({<<>>}) /\ [][TraceNext]_vars

-----------------------------------------------------------------------------
(* PerformanceTrace.stop() and the events of the recording it ends          *)
(* (trace.py 182-224, browser.py 90-131), one thread. After Tracing.end the *)
(* browser writes the reply to the command, the Tracing.dataCollected       *)
(* events and, last of the events, Tracing.tracingComplete; the reply       *)
(* stands anywhere among the events.                                        *)

TraceReply == [kind |-> "reply", n |-> 0, stream |-> FALSE]
TraceData(i) == [kind |-> "Tracing.dataCollected", n |-> i, stream |-> FALSE]
TraceComplete(stream) == [kind |-> "Tracing.tracingComplete", n |-> 0, stream |-> stream]

\* the events of a recording with k chunks
TraceEvents(k, stream) == [i \in 1..(k + 1) |-> IF i <= k THEN TraceData(i)
                                                ELSE TraceComplete(stream)]

\* seq with x put at position pos
InsertAt(seq, pos, x) == SubSeq(seq, 1, pos - 1) \o <<x>> \o SubSeq(seq, pos, Len(seq))

Arrivals ==
    UNION { { InsertAt(TraceEvents(k, stream), pos, TraceReply) :
                stream \in BOOLEAN, pos \in 1..(k + 2) } : k \in 0..MaxTraceData }

StopOnly == UNCHANGED <<snapVars, parseVars, cdpVars, waitVars, connVars, pollVars, fmtVars,
                        boxVars, traceVars, ctxVars, takeVars, colVars>>

\* trace.py 189-196: stop() while recording: cdp.send("Tracing.end")
StopCall ==
    /\ StopOnly
    /\ stopPc = "idle"
    /\ \E a \in Arrivals : sock' = a /\ arrival' = a
    /\ stopPc' = "send"
    /\ UNCHANGED <<stopOn, observed>>

\* browser.py 91-99: send() receives an event before its reply and calls the
\* handlers registered for it
StopSendRecvEvent ==
    /\ StopOnly
    /\ stopPc = "send" /\ sock # <<>> /\ Head(sock).kind # "reply"
    /\ sock' = Tail(sock)
    /\ observed' = IF stopOn THEN Append(observed, Head(sock)) ELSE observed
    /\ UNCHANGED <<stopPc, stopOn, arrival>>

\* browser.py 101-104 and trace.py 198-218: send() returns the reply; then
\* cdp.on("Tracing.tracingComplete", on_complete) and
\* cdp.on("Tracing.dataCollected", on_data)
StopSendReturns ==
    /\ StopOnly
    /\ stopPc = "send" /\ sock # <<>> /\ Head(sock).kind = "reply"
    /\ sock' = Tail(sock)
    /\ stopOn' = TRUE
    /\ stopPc' = "poll"
    /\ UNCHANGED <<observed, arrival>>

TraceCompleteSeen == \E i \in 1..Len(observed) : observed[i].kind = "Tracing.tracingComplete"

\* trace.py 221-222 and browser.py 118-128: cdp.poll(0.1) receives an event
\* and calls the handlers registered for it
StopPollRecv ==
    /\ StopOnly
    /\ stopPc = "poll" /\ sock # <<>> /\ ~TraceCompleteSeen
    /\ sock' = Tail(sock)
    /\ observed' = IF stopOn THEN Append(observed, Head(sock)) ELSE observed
    /\ UNCHANGED <<stopPc, stopOn, arrival>>

\* trace.py 221-224: the loop ends: trace_complete, or 30 s have passed with
\* nothing more to receive
StopPollingEnds ==
    /\ StopOnly
    /\ stopPc = "poll" /\ (TraceCompleteSeen \/ sock = <<>>)
    /\ stopPc' = "done"
    /\ UNCHANGED <<sock, stopOn, observed, arrival>>

StopNext ==
    \/ StopCall
    \/ StopSendRecvEvent
    \/ StopSendReturns
    \/ StopPollRecv
    \/ StopPollingEnds

SpecStop == Init({<<>>}) /\ [][StopNext]_vars

-----------------------------------------------------------------------------
(* ConsoleCollector: enable(), disable() and the recording of               *)
(* Runtime.consoleAPICalled events (collector.py 179-196, 307-355;          *)
(* browser.py 95-98, 107-109). CDP has no operation that removes a handler. *)

ColOnly == UNCHANGED <<snapVars, parseVars, cdpVars, waitVars, connVars, pollVars, fmtVars,
                       boxVars, traceVars, ctxVars, takeVars, stopVars>>

\* collector.py 179-186: enable(); fails: cdp.send("Runtime.enable") raises
Enable(fails) ==
    /\ ColOnly
    /\ colCalls < MaxColCalls
    /\ colCalls' = colCalls + 1
    /\ IF colEnabled
       THEN UNCHANGED <<colEnabled, colHandlers, colDomain>>
       ELSE /\ colHandlers' = colHandlers + 1
            /\ colDomain' = IF fails THEN colDomain ELSE TRUE
            /\ colEnabled' = ~fails
    /\ UNCHANGED <<colMessages, colEvents>>

\* collector.py 188-196: disable(); fails: cdp.send("Runtime.disable") raises,
\* which is swallowed
Disable(fails) ==
    /\ ColOnly
    /\ colCalls < MaxColCalls
    /\ colCalls' = colCalls + 1
    /\ IF ~colEnabled
       THEN UNCHANGED <<colEnabled, colDomain>>
       ELSE /\ colDomain' = IF fails THEN colDomain ELSE FALSE
            /\ colEnabled' = FALSE
    /\ UNCHANGED <<colHandlers, colMessages, colEvents>>

RECURSIVE Times(_, _)
\* x, n times
Times(x, n) == IF n = 0 THEN <<>> ELSE <<x>> \o Times(x, n - 1)

\* browser.py 95-98 and collector.py 332-355: a console event is received;
\* every registered handler is called and adds a message
ConsoleEvent ==
    /\ ColOnly
    /\ colDomain /\ colEvents < MaxColEvents
    /\ colEvents' = colEvents + 1
    /\ colMessages' = colMessages \o Times(colEvents', colHandlers)
    /\ UNCHANGED <<colEnabled, colHandlers, colDomain, colCalls>>

ColNext ==
    \/ \E fails \in BOOLEAN : Enable(fails)
    \/ \E fails \in BOOLEAN : Disable(fails)
    \/ ConsoleEvent

SpecCollector == Init({<<>>}) /\ [][ColNext]_vars

-----------------------------------------------------------------------------
(* CDP.connect (browser.py 37-77).                                          *)
(* A target is [type, url]; a URL is its scheme prefix followed by the      *)
(* rest, so that str.startswith is computed.                                *)

ExtensionUrl == <<"chrome-extension://", "abc/popup.html">>
DevtoolsUrl  == <<"devtools://", "devtools/inspector.html">>
UrlA         == <<"https://", "a.example/">>
UrlB         == <<"https://", "b.example/">>

Targets == [ type : {"page", "service_worker"},
             url  : {ExtensionUrl, DevtoolsUrl, UrlA, UrlB} ]

TargetLists == UNION { [1..n -> Targets] : n \in 0..MaxTargets }

\* page_filter: None, a predicate true of UrlA, a predicate true of nothing
Filters == { <<>>, <<{UrlA}>>, <<{}>> }

\* the first index of S, 0 if there is none
FirstOf(S) == IF S = {} THEN 0 ELSE CHOOSE i \in S : \A j \in S : i <= j

EligibleAnyType(p, f) ==
    /\ ~StartsWith(p.url, <<"chrome-extension://">>)
    /\ ~StartsWith(p.url, <<"devtools://">>)
    /\ (f = <<>> \/ p.url \in f[1])

\* browser.py 46-62: the target the loop breaks on
Eligible(p, f) ==
    /\ p.type = "page"
    /\ ~StartsWith(p.url, <<"chrome-extension://">>)
    /\ ~StartsWith(p.url, <<"devtools://">>)
    /\ (f = <<>> \/ p.url \in f[1])

NoPageMsg == <<"No browser page found">>

connectFallsBackToAny(pages, f) ==
    LET main == FirstOf({i \in DOMAIN pages : Eligible(pages[i], f)})
        pick == IF main # 0 THEN main ELSE FirstOf(DOMAIN pages)
    IN  IF pick = 0
        THEN [picked |-> 0, result |-> Raise("ConnectionError", NoPageMsg), ws |-> "closed"]
        ELSE [picked |-> pick, result |-> Return(0), ws |-> "open"]

\* browser.py 42-77: CDP.connect on a closed connection, given the target list
connect(pages, f) ==
    LET main == FirstOf({i \in DOMAIN pages : Eligible(pages[i], f)})
        fb   == FirstOf({i \in DOMAIN pages : pages[i].type = "page"})
        pick == IF main # 0 THEN main ELSE fb
    IN  IF pick = 0
        THEN [picked |-> 0, result |-> Raise("ConnectionError", NoPageMsg), ws |-> "closed"]
        ELSE [picked |-> pick, result |-> Return(0), ws |-> "open"]

ConnOnly == UNCHANGED <<snapVars, parseVars, waitVars, pollVars, fmtVars, boxVars, traceVars, ctxVars, takeVars, stopVars, colVars>>

\* browser.py 37-42: connect(page_filter) on a closed connection asks the
\* browser for its targets
ListTargets ==
    /\ ConnOnly
    /\ ws = "closed" /\ targets = <<>>
    /\ \E pages \in TargetLists, f \in Filters :
          /\ targets' = <<pages>>
          /\ pageFilter' = f
    /\ UNCHANGED <<connRes, closes, cdpVars>>

\* browser.py 44-77: the selection, and the socket if a target was chosen
Connect ==
    /\ ConnOnly
    /\ targets # <<>> /\ connRes = <<>>
    /\ LET r == connect(targets[1], pageFilter)
       IN  /\ connRes' = <<[picked |-> r.picked, result |-> r.result]>>
           /\ ws' = r.ws
    /\ UNCHANGED <<targets, pageFilter, closes, cdpId, callbacks, stack, wire, owed,
                   nEvents, rets, passedOver>>

closeUnprotected(w, fails) ==
    IF w # "closed"
    THEN IF fails THEN [ws |-> w, result |-> Raise("WebSocketException", <<>>)]
         ELSE [ws |-> "closed", result |-> Return(None)]
    ELSE [ws |-> w, result |-> Return(None)]

\* browser.py 133-140: CDP.close; fails: self._ws.close() raises, which the
\* bare except swallows before self._ws = None
close(w, fails) ==
    IF w # "closed"
    THEN [ws |-> "closed", result |-> Return(None)]
    ELSE [ws |-> w, result |-> Return(None)]

\* browser.py 168 calling 133-140: a close() call, whatever state the
\* connection is in
CloseCall(fails) ==
    /\ ConnOnly
    /\ Len(closes) < MaxCloses
    /\ LET r == close(ws, fails)
       IN  /\ ws' = r.ws
           /\ closes' = Append(closes, [was |-> ws, fails |-> fails,
                                        result |-> r.result, now |-> r.ws])
    /\ UNCHANGED <<targets, pageFilter, connRes, cdpId, callbacks, stack, wire, owed,
                   nEvents, rets, passedOver>>

ConnectNext ==
    \/ ListTargets
    \/ Connect
    \/ \E fails \in BOOLEAN : CloseCall(fails)

SpecConnect == Init({<<>>}) /\ [][ConnectNext]_vars

-----------------------------------------------------------------------------
(* CDP transport (browser.py 27-140).                                       *)
(* A message on the wire is [t, id, err, ev, n]:                            *)
(*   t = "reply": the reply to command id, with an error object iff err;    *)
(*   t = "event": the event named ev;                                       *)
(*   t = "burst": n consecutive events that no handler is registered for.   *)
(* The payload (result or error object) of the reply to command id is       *)
(* written id. A send() call in progress is a frame                         *)
(* [sentId, recvs, todo, cont]: the id it sent, the receives its loop has   *)
(* made, the handlers of the event just received that it has still to       *)
(* call, and the code that called it.                                       *)

\* browser.py 91: for _ in range(200)
RecvLimit == 200

Reply(id, err) == [t |-> "reply", id |-> id, err |-> err, ev |-> "", n |-> 1]
Event(ev)      == [t |-> "event", id |-> 0, err |-> FALSE, ev |-> ev, n |-> 1]
Burst(n)       == [t |-> "burst", id |-> 0, err |-> FALSE, ev |-> "", n |-> n]

Frame(id, cont) == [sentId |-> id, recvs |-> 0, todo |-> <<>>, cont |-> cont]

Top       == stack[Len(stack)]
SetTop(f) == [stack EXCEPT ![Len(stack)] = f]
Pop       == SubSeq(stack, 1, Len(stack) - 1)

Ended(kind, cause, payload, recvs) ==
    [kind |-> kind, cause |-> cause, payload |-> payload, recvs |-> recvs]

CdpOnly == UNCHANGED <<snapVars, parseVars, waitVars, connVars, pollVars, fmtVars, boxVars, traceVars, ctxVars, takeVars, stopVars, colVars>>

\* no call on the CDP object is in progress
Idle == stack = <<>> /\ pollSt = <<>>

\* browser.py 81-88: connect if closed, take the next id, write the command
BeginSend(below, cont) ==
    /\ cdpId < MaxCmds
    /\ ws' = "open"
    /\ cdpId' = cdpId + 1
    /\ owed' = owed \cup {cdpId'}
    /\ stack' = Append(below, Frame(cdpId', cont))

\* handler h is in self._callbacks[ev]; the callers modelled here register a
\* handler once
Registered(ev, h) == \E i \in 1..Len(callbacks[ev]) : callbacks[ev][i] = h

\* a caller's cdp.send(...)
CallSend ==
    /\ CdpOnly
    /\ Idle
    /\ BeginSend(<<>>, "caller")
    /\ UNCHANGED <<callbacks, wire, nEvents, rets, passedOver>>

\* browser.py 583-585: Browser.network_intercept up to its send("Fetch.enable")
NetworkIntercept ==
    /\ CdpOnly
    /\ Idle
    /\ ~Registered("Fetch.requestPaused", "on_request")
    /\ BeginSend(<<>>, "network_intercept")
    /\ UNCHANGED <<callbacks, wire, nEvents, rets, passedOver>>

\* browser.py 107-109: CDP.on, with a handler that only records the event
On(ev) ==
    /\ CdpOnly
    /\ Idle
    /\ ~Registered(ev, "record")
    /\ callbacks' = [callbacks EXCEPT ![ev] = Append(@, "record")]
    /\ UNCHANGED <<ws, cdpId, stack, wire, owed, nEvents, rets, passedOver>>

\* browser.py 91: the loop has an iteration left
LoopRuns(f) == f.recvs < RecvLimit

\* the innermost send() is about to call self._ws.recv()
Receiving == stack # <<>> /\ Top.todo = <<>> /\ LoopRuns(Top)

\* browser.py 101: result.get("id") == self._id
Matches(msg) == msg.id = cdpId

\* a send() returned to the code that called it (browser.py 594: after its
\* send, network_intercept registers on_request)
ReturnTo(f) ==
    callbacks' = IF f.cont = "network_intercept"
                 THEN [callbacks EXCEPT !["Fetch.requestPaused"] = Append(@, "on_request")]
                 ELSE callbacks

\* an exception leaves the innermost send(): on_request and the send() calls
\* below catch nothing, so it ends every call in progress
Unwind(cause, payload, recvs) ==
    /\ stack' = <<>>
    /\ rets' = [ id \in DOMAIN rets \cup { stack[i].sentId : i \in 1..Len(stack) } |->
                   IF id = Top.sentId THEN Ended("raise", cause, payload, recvs)
                   ELSE IF \E i \in 1..Len(stack) : stack[i].sentId = id
                   THEN LET i == CHOOSE j \in 1..Len(stack) : stack[j].sentId = id
                        IN  Ended("raise", "handler raised", payload, stack[i].recvs)
                   ELSE rets[id] ]

\* browser.py 92-99: a message with "method"; the handlers of the event are due
RecvEvent ==
    /\ CdpOnly
    /\ Receiving /\ wire # <<>> /\ Head(wire).t = "event"
    /\ wire' = Tail(wire)
    /\ stack' = SetTop([Top EXCEPT !.recvs = @ + 1, !.todo = callbacks[Head(wire).ev]])
    /\ UNCHANGED <<ws, cdpId, callbacks, owed, nEvents, rets, passedOver>>

\* browser.py 92-99, as many times as the burst and the loop allow: each
\* event has no handler and only uses up one iteration
RecvBurst ==
    /\ CdpOnly
    /\ Receiving /\ wire # <<>> /\ Head(wire).t = "burst"
    /\ LET left == RecvLimit - Top.recvs
           c    == IF Head(wire).n < left THEN Head(wire).n ELSE left
       IN  /\ stack' = SetTop([Top EXCEPT !.recvs = @ + c])
           /\ wire' = IF c = Head(wire).n THEN Tail(wire)
                      ELSE <<Burst(Head(wire).n - c)>> \o Tail(wire)
    /\ UNCHANGED <<ws, cdpId, callbacks, owed, nEvents, rets, passedOver>>

\* browser.py 101-104: the reply with the awaited id and no error
RecvResult ==
    /\ CdpOnly
    /\ Receiving /\ wire # <<>> /\ Head(wire).t = "reply"
    /\ Matches(Head(wire)) /\ ~Head(wire).err
    /\ wire' = Tail(wire)
    /\ stack' = Pop
    /\ rets' = Put(rets, Top.sentId, Ended("result", "reply", Head(wire).id, Top.recvs + 1))
    /\ ReturnTo(Top)
    /\ UNCHANGED <<ws, cdpId, owed, nEvents, passedOver>>

\* browser.py 101-103: the reply with the awaited id and an error object
RecvError ==
    /\ CdpOnly
    /\ Receiving /\ wire # <<>> /\ Head(wire).t = "reply"
    /\ Matches(Head(wire)) /\ Head(wire).err
    /\ wire' = Tail(wire)
    /\ Unwind("error reply", Head(wire).id, Top.recvs + 1)
    /\ UNCHANGED <<ws, cdpId, callbacks, owed, nEvents, passedOver>>

\* browser.py 92-101: a reply with another id; the loop goes on
RecvOther ==
    /\ CdpOnly
    /\ Receiving /\ wire # <<>> /\ Head(wire).t = "reply"
    /\ ~Matches(Head(wire))
    /\ wire' = Tail(wire)
    /\ stack' = SetTop([Top EXCEPT !.recvs = @ + 1])
    /\ passedOver' = IF Head(wire).id = Top.sentId
                     THEN passedOver \cup {[id |-> Head(wire).id, err |-> Head(wire).err]}
                     ELSE passedOver
    /\ UNCHANGED <<ws, cdpId, callbacks, owed, nEvents, rets>>

\* browser.py 92: recv() raises (nothing arrived within the socket timeout, or
\* the connection was lost); send() does not catch it and leaves self._ws as
\* it is
RecvFails ==
    /\ CdpOnly
    /\ Receiving /\ wire = <<>>
    /\ Unwind("recv failed", 0, Top.recvs)
    /\ UNCHANGED <<ws, cdpId, callbacks, wire, owed, nEvents, passedOver>>

LoopEndRaises == "raise"

\* browser.py 105: return {}
LoopEndKind == "empty"

\* browser.py 91, 105: the loop has used its iterations
LoopEnd ==
    /\ CdpOnly
    /\ stack # <<>> /\ Top.todo = <<>> /\ ~LoopRuns(Top)
    /\ stack' = Pop
    /\ rets' = Put(rets, Top.sentId, Ended(LoopEndKind, "loop ended", 0, Top.recvs))
    /\ ReturnTo(Top)
    /\ UNCHANGED <<ws, cdpId, wire, owed, nEvents, passedOver>>

\* browser.py 97-98: cb(params) for a handler that records the event
CallRecord ==
    /\ CdpOnly
    /\ stack # <<>> /\ Top.todo # <<>> /\ Head(Top.todo) = "record"
    /\ stack' = SetTop([Top EXCEPT !.todo = Tail(@)])
    /\ UNCHANGED <<ws, cdpId, callbacks, wire, owed, nEvents, rets, passedOver>>

\* browser.py 97-98 calling browser.py 587-592: on_request, which calls
\* self.cdp.send(Fetch.fulfillRequest | Fetch.continueRequest)
CallOnRequest ==
    /\ CdpOnly
    /\ stack # <<>> /\ Top.todo # <<>> /\ Head(Top.todo) = "on_request"
    /\ BeginSend(SetTop([Top EXCEPT !.todo = Tail(@)]), "handler")
    /\ UNCHANGED <<callbacks, wire, nEvents, rets, passedOver>>

\* What the browser writes while no call runs waits in the socket until the
\* next call reads it; the browser's writes are taken while a call runs.
Listening == ~Idle

\* the browser answers a command, in any order
BrowserReply(id, err) ==
    /\ CdpOnly
    /\ Listening
    /\ id \in owed /\ Len(wire) < MaxWire
    /\ wire' = Append(wire, Reply(id, err))
    /\ owed' = owed \ {id}
    /\ UNCHANGED <<ws, cdpId, callbacks, stack, nEvents, rets, passedOver>>

\* the browser emits an event
BrowserEvent(ev) ==
    /\ CdpOnly
    /\ Listening
    /\ nEvents < MaxEvents /\ Len(wire) < MaxWire
    /\ wire' = Append(wire, Event(ev))
    /\ nEvents' = nEvents + 1
    /\ UNCHANGED <<ws, cdpId, callbacks, stack, owed, rets, passedOver>>

\* the browser emits RecvLimit events in a row that nobody subscribed to
BrowserBurst ==
    /\ CdpOnly
    /\ Listening
    /\ nEvents < MaxEvents /\ Len(wire) < MaxWire
    /\ \A i \in 1..Len(wire) : wire[i].t # "burst"
    /\ wire' = Append(wire, Burst(RecvLimit))
    /\ nEvents' = nEvents + 1
    /\ UNCHANGED <<ws, cdpId, callbacks, stack, owed, rets, passedOver>>

CdpNext ==
    \/ CallSend
    \/ NetworkIntercept
    \/ \E ev \in Events : On(ev)
    \/ RecvEvent
    \/ RecvBurst
    \/ RecvResult
    \/ RecvError
    \/ RecvOther
    \/ RecvFails
    \/ LoopEnd
    \/ CallRecord
    \/ CallOnRequest
    \/ \E id \in 1..MaxCmds, err \in BOOLEAN : BrowserReply(id, err)
    \/ \E ev \in Events : BrowserEvent(ev)
    \/ BrowserBurst

SpecCDP == Init({<<>>}) /\ [][CdpNext]_vars

-----------------------------------------------------------------------------
(* CDP.poll and CDP.close (browser.py 111-140).                             *)
(* The poll() call in progress is [timeout, events, todo, calling,          *)
(* sentBefore]: its argument, the events collected, the handlers of the     *)
(* event just received that it has still to call, the id of the command     *)
(* the handler it called last has sent (0: none), and self._id at the call. *)

\* timeout arguments of poll(), in ms: the default 0.1 and browser.py 767's 5.0
PollTimeouts == {100, 5000}

PollOnly == UNCHANGED <<snapVars, parseVars, waitVars, connVars, fmtVars, boxVars, traceVars, ctxVars, takeVars, stopVars, colVars>>

Polled(open, events, why) ==
    <<[ wasOpen |-> open, events |-> events, why |-> why,
        sentBefore |-> IF pollSt = <<>> THEN cdpId ELSE pollSt[1].sentBefore,
        sentAfter |-> cdpId, wsAfter |-> ws ]>>

\* browser.py 113-114: if not self._ws: return []
PollClosed ==
    /\ PollOnly
    /\ Idle /\ ws = "closed"
    /\ lastPoll' = Polled(FALSE, <<>>, "closed")
    /\ UNCHANGED <<cdpVars, pollSt, sockTimeout>>

\* browser.py 116-117: events = []; self._ws.settimeout(timeout)
PollBegin(t) ==
    /\ PollOnly
    /\ Idle /\ ws = "open"
    /\ pollSt' = <<[timeout |-> t, events |-> <<>>, todo |-> <<>>, calling |-> 0,
                    sentBefore |-> cdpId]>>
    /\ sockTimeout' = t
    /\ lastPoll' = <<>>
    /\ UNCHANGED cdpVars

\* the exception of a handler has reached poll()
Raised ==
    /\ pollSt # <<>> /\ pollSt[1].calling \in DOMAIN rets
    /\ rets[pollSt[1].calling].kind = "raise"

\* poll() itself runs: no handler of it is inside a send()
Polling == pollSt # <<>> /\ stack = <<>> /\ ~Raised

\* browser.py 120-127: a message with "method" is collected and its handlers
\* are due
PollRecvEvent ==
    /\ PollOnly
    /\ Polling /\ pollSt[1].todo = <<>>
    /\ wire # <<>> /\ Head(wire).t = "event"
    /\ wire' = Tail(wire)
    /\ pollSt' = <<[pollSt[1] EXCEPT !.events = Append(@, Head(wire).ev),
                                     !.todo = callbacks[Head(wire).ev]]>>
    /\ UNCHANGED <<ws, cdpId, callbacks, stack, owed, nEvents, rets, passedOver,
                   sockTimeout, lastPoll>>

\* browser.py 120-121: a message without "method" (the reply to a command
\* whose send() has ended) is read and dropped
PollRecvReply ==
    /\ PollOnly
    /\ Polling /\ pollSt[1].todo = <<>>
    /\ wire # <<>> /\ Head(wire).t = "reply"
    /\ wire' = Tail(wire)
    /\ UNCHANGED <<ws, cdpId, callbacks, stack, owed, nEvents, rets, passedOver,
                   pollVars>>

\* browser.py 126-127: cb(params) for a handler that records the event
PollCallRecord ==
    /\ PollOnly
    /\ Polling /\ pollSt[1].todo # <<>> /\ Head(pollSt[1].todo) = "record"
    /\ pollSt' = <<[pollSt[1] EXCEPT !.todo = Tail(@)]>>
    /\ UNCHANGED <<cdpVars, sockTimeout, lastPoll>>

\* browser.py 126-127 calling browser.py 587-592: on_request, which calls
\* self.cdp.send(Fetch.fulfillRequest | Fetch.continueRequest)
PollCallOnRequest ==
    /\ PollOnly
    /\ Polling /\ pollSt[1].todo # <<>> /\ Head(pollSt[1].todo) = "on_request"
    /\ BeginSend(<<>>, "poll")
    /\ pollSt' = <<[pollSt[1] EXCEPT !.todo = Tail(@), !.calling = cdpId']>>
    /\ UNCHANGED <<callbacks, wire, nEvents, rets, passedOver, sockTimeout, lastPoll>>

\* browser.py 128-131: recv() raised (nothing arrived within the timeout, or
\* the connection was lost) or a handler raised; except: pass, then
\* self._ws.settimeout(60) and return events
PollEnds ==
    /\ PollOnly
    /\ pollSt # <<>> /\ stack = <<>>
    /\ \/ Raised
       \/ pollSt[1].todo = <<>> /\ wire = <<>>
    /\ sockTimeout' = SocketTimeout
    /\ lastPoll' = Polled(TRUE, pollSt[1].events,
                          IF Raised THEN "handler raised" ELSE "recv failed")
    /\ pollSt' = <<>>
    /\ UNCHANGED cdpVars

\* browser.py 133-140: close() on an open connection; what the browser had
\* written or still owed on that socket is gone
Close ==
    /\ PollOnly
    /\ Idle /\ ws = "open"
    /\ \E fails \in BOOLEAN : ws' = close(ws, fails).ws
    /\ wire' = <<>>
    /\ owed' = {}
    /\ UNCHANGED <<cdpId, callbacks, stack, nEvents, rets, passedOver, pollVars>>

PollNext ==
    \/ CallSend
    \/ NetworkIntercept
    \/ \E ev \in Events : On(ev)
    \/ RecvEvent
    \/ RecvResult
    \/ RecvError
    \/ RecvOther
    \/ RecvFails
    \/ CallRecord
    \/ CallOnRequest
    \/ \E id \in 1..MaxCmds, err \in BOOLEAN : BrowserReply(id, err)
    \/ \E ev \in Events : BrowserEvent(ev)
    \/ PollClosed
    \/ \E t \in PollTimeouts : PollBegin(t)
    \/ PollRecvEvent
    \/ PollRecvReply
    \/ PollCallRecord
    \/ PollCallOnRequest
    \/ PollEnds
    \/ Close

SpecPoll == Init({<<>>}) /\ [][PollNext]_vars

-----------------------------------------------------------------------------
(* Claims about the snapshot manager (SpecSnap) and the parser (SpecParse). *)

Actions == {"click", "type_text", "focus", "hover"}

\* uid was handed out by a snapshot that a later take() has superseded
Stale(uid) == \E m \in minted : m.uid = uid /\ m.take < takes

\* C1: once a later take() has replaced the snapshot, validate_uid rejects
\* every identifier that any earlier snapshot handed out, also when both
\* takes parsed the same raw tree.
C1_SupersededUidsRejected ==
    \A m \in minted :
        (current # <<>> /\ m.take < takes) => ~validate_uid(current[1], m.uid)

C1_Witness ==
    /\ pc = "idle" /\ takes >= 2 /\ sameRaw
    /\ \E m \in minted : m.take = takes - 1
    /\ TableOf(current) # {}

C3_BadUidFailsFast ==
    (lastOp.op \in Actions /\ lastOp.uid \notin TableOf(lastOp.before.current)) =>
        /\ lastOp.result.kind = "raise"
        /\ lastOp.result.type = "ValueError"
        /\ lastOp.trace = <<>>
        /\ version = lastOp.before.version
        /\ current = lastOp.before.current

C3_Witness ==
    /\ lastOp.op = "type_text" /\ lastOp.uid = <<"x">>
    /\ TableOf(current) # {}
    /\ lastOp.result.kind = "raise"

\* C9: whoever reads the manager's current snapshot, at any point of take(),
\* finds the last completely parsed snapshot: the previous one until the new
\* one is complete. (Stated for a previous snapshot that is complete and has
\* a populated table.)
C9_ReaderSeesCompleteSnapshot ==
    (lastComplete # <<>> /\ TableOf(lastComplete) # {}) => current = lastComplete

\* C10: the version starts at 0, rises by exactly 1 with every take() and
\* never falls; a current snapshot carries the manager's version; no
\* identifier of the current table was handed out by an earlier snapshot.
C10_VersionAndFreshTable ==
    /\ [](/\ version = takes
          /\ current # <<>> => current[1].version = version
          /\ \A u \in TableOf(current) : \A m \in minted : m.uid = u => m.take = takes)
    /\ [][\/ version' = version /\ takes' = takes
          \/ version' = version + 1 /\ takes' = takes + 1]_vars

C10_Witness ==
    /\ pc = "idle" /\ takes >= 3
    /\ TableOf(current) # {}
    /\ \E m \in minted : m.take = 1

RECURSIVE ElidedChildren(_, _)
\* the child list the claim describes: an ignored child gives way to its own
\* children, in place
ElidedChildren(cids, lookup) ==
    IF cids = <<>> THEN <<>>
    ELSE LET cid == Head(cids)
             one == IF cid \notin DOMAIN lookup THEN <<>>
                    ELSE IF lookup[cid].ignored
                    THEN ElidedChildren(lookup[cid].childIds, lookup)
                    ELSE <<cid>>
         IN  one \o ElidedChildren(Tail(cids), lookup)

\* C8: no node marked ignored is in the parsed tree or the identifier table,
\* and the children of an ignored node stand, in order, where the ignored
\* node stood in its parent's child list.
C8_IgnoredNodesElided ==
    parsed # <<>> =>
        \A uid \in DOMAIN parsed[1].uid_map :
            LET node == parsed[1].uid_map[uid]
                lookup == Lookup(rawIn)
            IN  /\ ~lookup[node.raw].ignored
                /\ [i \in 1..Len(node.children) |-> node.children[i].raw]
                      = ElidedChildren(lookup[node.raw].childIds, lookup)

RECURSIVE TreePreorder(_)
RECURSIVE TreePreorderEach(_)
\* the nodes of a parsed tree, a node before its children, children in order
TreePreorder(node) == <<node>> \o TreePreorderEach(node.children)
TreePreorderEach(nodes) ==
    IF nodes = <<>> THEN <<>>
    ELSE TreePreorder(Head(nodes)) \o TreePreorderEach(Tail(nodes))

\* C32: the k-th node of the parsed tree in pre-order has the identifier
\* "v{version}_{k in base 36}"; the identifiers are distinct, the identifier
\* table has one entry per node of the tree, which is that node, and every
\* handle of the backend table maps to an identifier of the table whose node
\* carries the handle.
C32_UidsNumberTheNodes ==
    (parsed # <<>> /\ parsed[1].root # <<>>) =>
        LET s   == parsed[1]
            pre == TreePreorder(s.root[1])
        IN  /\ \A k \in 1..Len(pre) :
                  /\ pre[k].uid = <<"v">> \o Dec(s.version) \o <<"_", Chars36[k + 1]>>
                  /\ pre[k].uid \in DOMAIN s.uid_map
                  /\ s.uid_map[pre[k].uid] = pre[k]
            /\ \A j, k \in 1..Len(pre) : j # k => pre[j].uid # pre[k].uid
            /\ Cardinality(DOMAIN s.uid_map) = Len(pre)
            /\ s.counter = Len(pre)
            /\ \A h \in DOMAIN s.backend_map :
                  /\ s.backend_map[h] \in DOMAIN s.uid_map
                  /\ s.uid_map[s.backend_map[h]].backend_node_id = h

\* four nodes parsed, one of them without a backend handle, and below the
\* root a node that has a child
C32_Witness ==
    /\ parsed # <<>> /\ parsed[1].root # <<>>
    /\ parsed[1].counter = 4
    /\ Cardinality(DOMAIN parsed[1].backend_map) = 3
    /\ \E i \in 1..Len(parsed[1].root[1].children) :
          parsed[1].root[1].children[i].children # <<>>

\* C11: after a take(), validate_uid is true exactly for the strings that
\* begin with "v{current version}_" and are keys of the current table, which
\* are exactly the identifiers that take minted; it is false for every other
\* string, a right prefix with an unknown suffix included.
C11_ValidateUidExact ==
    (pc = "idle" /\ current # <<>>) =>
        \A uid \in UidInputs :
            /\ validate_uid(current[1], uid) <=>
                  (StartsWith(uid, VersionPrefix(version)) /\ uid \in TableOf(current))
            /\ validate_uid(current[1], uid) <=>
                  (\E m \in minted : m.uid = uid /\ m.take = takes)

\* a populated table, identifiers of an earlier take among the candidates,
\* and a candidate with the right prefix and an unknown suffix
C11_Witness ==
    /\ pc = "idle" /\ takes >= 2
    /\ TableOf(current) # {}
    /\ \E m \in minted : m.take < takes
    /\ Uid(version, MaxSnapNodes + 1) \notin TableOf(current)

\* C12: an identifier-addressed action that sent transport commands and
\* returned has run the whole settle wait after the last of its own commands
\* and before it returned.
C12_SettleWaitAfterAction ==
    ( /\ lastOp.op \in Actions
      /\ lastOp.result.kind = "return"
      /\ \E i \in 1..Len(lastOp.trace) : lastOp.trace[i].k = "send" ) =>
        LET n == Len(lastOp.trace) - Len(SettleWait)
        IN  /\ n >= 1
            /\ SubSeq(lastOp.trace, n + 1, Len(lastOp.trace)) = SettleWait
            /\ \A i \in 1..n : lastOp.trace[i].k = "send"

-----------------------------------------------------------------------------
(* Claims about the CDP transport (SpecCDP).                                *)

\* C4: a send() that returns a result returns the payload of the reply that
\* carries the id this send() issued, and it never passes over that reply as
\* if it belonged to another command.
C4_ReturnsOwnReply ==
    /\ \A id \in DOMAIN rets : rets[id].kind = "result" => rets[id].payload = id
    /\ \A p \in passedOver : p.err

\* C5: when the reply to the command a send() issued carries an error
\* object, that send() raises an error carrying that payload; the reply is
\* not passed over, and no send() raises the error of another command.
C5_ErrorReplyRaises ==
    /\ \A id \in DOMAIN rets :
          rets[id].cause = "error reply" => rets[id].kind = "raise" /\ rets[id].payload = id
    /\ \A p \in passedOver : ~p.err

\* C6: one send() makes at most RecvLimit receives, and when none of them
\* brought a reply with the awaited id it returns the empty result instead of
\* raising; it returns the empty result in no other case.
C6_BoundedReceives ==
    /\ \A i \in 1..Len(stack) : stack[i].recvs <= RecvLimit
    /\ \A id \in DOMAIN rets :
          /\ rets[id].recvs <= RecvLimit
          /\ rets[id].cause = "loop ended" =>
                rets[id].kind = "empty" /\ rets[id].recvs = RecvLimit
          /\ rets[id].kind = "empty" => rets[id].cause = "loop ended"

\* a send() used up its receives on events and other commands' replies
C6_Witness ==
    \E id \in DOMAIN rets : rets[id].kind = "empty" /\ rets[id].recvs = RecvLimit

\* C7: at most one command awaits its reply at any time, the sends made by
\* event handlers (network_intercept's on_request) included.
C7_OneSendAtATime == Len(stack) <= 1

\* C24: with sends nested by handlers, every send() that returns a result
\* returns the payload of the reply to the command it sent itself, and no
\* send() goes past the reply to its own command.
C24_NestedSendsKeepReplies ==
    /\ passedOver = {}
    /\ \A id \in DOMAIN rets :
          (rets[id].kind = "result" /\ rets[id].cause = "reply") => rets[id].payload = id

\* C16: every handler registered for the event of a received message is
\* invoked, once and in registration order: todo holds the handlers still due
\* in that order, and a call that received an event does not end while a
\* handler of it is still due.
C16_AllHandlersInvoked ==
    [][\A i \in 1..Len(stack) : i > Len(stack') => stack[i].todo = <<>>]_vars

-----------------------------------------------------------------------------
(* Claims about poll, close and the life of the connection (SpecPoll).      *)

\* C17: while a send() runs the connection is open (send opened it if it
\* was closed), and once the last send() has ended because its recv() failed
\* the connection is closed, so that the next send() opens a new one.
C17_ClosedAfterFailure ==
    /\ stack # <<>> => ws = "open"
    /\ (Idle /\ cdpId \in DOMAIN rets /\ rets[cdpId].cause = "recv failed") =>
           ws = "closed"

\* C20: a poll() call sends no command; on a closed connection it returns
\* the empty list and leaves the connection closed; and when no poll() is in
\* progress the receive timeout of the socket is the default.
C20_PollOnlyReceives ==
    /\ lastPoll # <<>> =>
          /\ lastPoll[1].sentAfter = lastPoll[1].sentBefore
          /\ ~lastPoll[1].wasOpen =>
                lastPoll[1].events = <<>> /\ lastPoll[1].wsAfter = "closed"
    /\ pollSt = <<>> => sockTimeout = SocketTimeout

-----------------------------------------------------------------------------
(* Claims about the settle wait (SpecWait).                                 *)

\* C13: once abort() was called while wait_after_action was in flight, no
\* step of the wait that had not started yet (grace sleep, navigation wait,
\* DOM wait) runs, and the call ends with what the action returned.
C13_AbortSkipsRemainingSteps ==
    abortAt # <<>> =>
        /\ wpc \in {"sleep", "nav", "dom"} => wpc = abortAt[1].pc
        /\ wpc = "done" => wres # <<>>

\* C14: wait_for_navigation and wait_for_stable_dom return a boolean in every
\* outcome, and False when the in-page evaluation failed.
C14_WaitsReturnBoolean ==
    \A i \in 1..Len(wlog) :
        wlog[i].step \in {"wait_for_navigation", "wait_for_stable_dom"} =>
            /\ wlog[i].ret \in {<<TRUE>>, <<FALSE>>}
            /\ wlog[i].answer \in {"error", "recv failed"} => wlog[i].ret = <<FALSE>>

\* the page neither navigates nor mutates, its ready state is complete, the
\* transport answers both evaluations, nobody aborts, the action returned
QuietRun ==
    /\ wpc = "done"
    /\ page.ready = "complete" /\ page.muts = {} /\ ~page.churn /\ page.root
    /\ abortAt = <<>> /\ ~aborted
    /\ wres # <<>> /\ wres[1].kind = "return"
    /\ \A i \in 1..Len(wlog) : wlog[i].answer \in {"", "value"}

\* C15: wait_after_action, with an action that causes no navigation and no
\* DOM mutation on a page whose ready state is complete, has run all its
\* steps after the grace period plus one quiet window, which is less than
\* the navigation timeout and less than the DOM overall timeout.
C15_QuietPageSettlesFast ==
    QuietRun =>
        /\ [i \in 1..Len(wlog) |-> wlog[i].step]
              = <<"action", "sleep", "wait_for_navigation", "wait_for_stable_dom">>
        /\ wlog[3].ret = <<TRUE>> /\ wlog[4].ret = <<TRUE>>
        /\ wclock = NavigationDetect + StableDomFor
        /\ wclock < NavigationTimeout /\ wclock < StableDomTimeout

C15_Witness == QuietRun /\ Len(wlog) = 4

-----------------------------------------------------------------------------
(* Claims about CDP.connect (SpecConnect).                                  *)

\* target i of the list is of type page, is no extension or devtools page,
\* and satisfies the predicate if one was given
Wanted(i) ==
    /\ targets[1][i].type = "page"
    /\ targets[1][i].url[1] \notin {"chrome-extension://", "devtools://"}
    /\ (pageFilter # <<>> => targets[1][i].url \in pageFilter[1])

\* C18: connect never chooses a target whose type is not page; it chooses
\* the first wanted target of the list, and only when there is none the first
\* target of type page.
C18_ConnectSelectsPage ==
    (connRes # <<>> /\ connRes[1].picked # 0) =>
        LET k == connRes[1].picked
            pages == targets[1]
        IN  /\ pages[k].type = "page"
            /\ (\E i \in DOMAIN pages : Wanted(i)) =>
                  (Wanted(k) /\ \A j \in 1..(k - 1) : ~Wanted(j))
            /\ (\A i \in DOMAIN pages : ~Wanted(i)) =>
                  (\A j \in 1..(k - 1) : pages[j].type # "page")

\* a predicate was given; before the chosen target stand a target that is
\* not a page and an extension page
C18_Witness ==
    /\ connRes # <<>> /\ connRes[1].picked = 3
    /\ pageFilter # <<>>
    /\ targets[1][1].type # "page"
    /\ targets[1][2].type = "page" /\ targets[1][2].url = ExtensionUrl
    /\ Wanted(3)

\* C19: when the list holds no target of type page, connect raises and the
\* connection stays closed.
C19_NoPageRaises ==
    (connRes # <<>> /\ \A i \in DOMAIN targets[1] : targets[1][i].type # "page") =>
        /\ connRes[1].result.kind = "raise"
        /\ connRes[1].picked = 0
        /\ ws = "closed"

C19_Witness ==
    /\ connRes # <<>> /\ connRes[1].result.kind = "raise"
    /\ Len(targets[1]) >= 2
    /\ \E i \in DOMAIN targets[1] : targets[1][i].url = UrlA

\* C31: when connect was given a URL predicate and returned, the URL of the
\* target it connected to satisfies the predicate.
C31_ConnectedUrlSatisfiesFilter ==
    (connRes # <<>> /\ pageFilter # <<>> /\ connRes[1].result.kind = "return") =>
        targets[1][connRes[1].picked].url \in pageFilter[1]

\* C21: close() never raises, whether the connection is open, closed or
\* was never opened and whether or not closing the socket fails; when it
\* returns the connection is closed; a close() on a closed connection
\* changes nothing.
C21_CloseNeverRaises ==
    \A i \in 1..Len(closes) :
        /\ closes[i].result.kind = "return"
        /\ closes[i].now = "closed"
        /\ closes[i].was = "closed" => closes[i].now = closes[i].was

\* an open connection whose socket close failed, then a second close()
C21_Witness ==
    /\ Len(closes) = 2
    /\ closes[1].was = "open" /\ closes[1].fails
    /\ closes[2].was = "closed" /\ closes[2].now = "closed"

-----------------------------------------------------------------------------
(* Claims about Snapshot.format (SpecFormat).                               *)

\* the lines of a text: its parts between line breaks
RECURSIVE SplitLines(_, _)
SplitLines(text, line) ==
    IF text = <<>> THEN <<line>>
    ELSE IF Head(text) = "\n" THEN <<line>> \o SplitLines(Tail(text), <<>>)
    ELSE SplitLines(Tail(text), Append(line, Head(text)))

\* node i is left out of the rendering
Omitted(t, i, verbose) ==
    ~verbose /\ t[i].role \in {"none", "generic", "InlineTextBox"} /\ t[i].name = <<>>

\* the ancestors of node i that are rendered
RECURSIVE ShownAbove(_, _, _)
ShownAbove(t, i, verbose) ==
    IF t[i].par = 0 THEN 0
    ELSE ShownAbove(t, t[i].par, verbose)
             + (IF Omitted(t, t[i].par, verbose) THEN 0 ELSE 1)

\* the nodes below and including node i, parents before children
RECURSIVE Preorder(_, _)
RECURSIVE PreorderEach(_, _)
Preorder(t, i) == <<i>> \o PreorderEach(t, FmtChildren(t, i))
PreorderEach(t, kids) ==
    IF kids = <<>> THEN <<>> ELSE Preorder(t, Head(kids)) \o PreorderEach(t, Tail(kids))

\* C22: the text has one line for every node that is not omitted, in tree
\* order, indented by the number of its rendered ancestors; non-verbose a
\* node is omitted exactly when it is a nameless none, generic or
\* InlineTextBox node, verbose no node is omitted.
C22_OneLinePerShownNode ==
    (fmtOut # <<>> /\ fmtIn[1] # <<>>) =>
        LET t     == fmtIn[1]
            v     == fmtOut[1].verbose
            Keep(i) == ~Omitted(t, i, v)
            shown == SelectSeq(Preorder(t, 1), Keep)
            lines == IF fmtOut[1].text = <<>> THEN <<>> ELSE SplitLines(fmtOut[1].text, <<>>)
        IN  /\ Len(lines) = Len(shown)
            /\ \A k \in 1..Len(shown) :
                  StartsWith(lines[k], Indent(ShownAbove(t, shown[k], v)) \o FmtUid(shown[k]))

-----------------------------------------------------------------------------
(* Claims about box_center (SpecBox).                                       *)

\* r is the number x with its fraction cut off, where x = twice / 2
TruncatedHalf(r, twice) ==
    IF twice >= 0 THEN 2 * r <= twice /\ twice < 2 * r + 2
    ELSE 2 * r >= twice /\ twice > 2 * r - 2

\* C23: box_center returns no center for a content array of fewer than 8
\* numbers, the empty one included, and otherwise the midpoint of
\* (c[0], c[1]) and (c[4], c[5]) with the fractions cut off; the center of
\* [0,0,10,0,10,10,0,10] is (5,5).
C23_BoxCenter ==
    boxCall # <<>> =>
        LET c == boxCall[1].content
            r == boxCall[1].center
        IN  /\ Len(c) < 8 => r = <<>>
            /\ Len(c) >= 8 =>
                  /\ r # <<>>
                  /\ TruncatedHalf(r[1][1], c[1] + c[5])
                  /\ TruncatedHalf(r[1][2], c[2] + c[6])
            /\ c = <<0, 0, 10, 0, 10, 10, 0, 10>> => r = << <<5, 5>> >>

\* a box whose midpoint has a negative fraction in x and a positive one in y
C23_Witness ==
    /\ boxCall # <<>> /\ Len(boxCall[1].content) >= 8
    /\ boxCall[1].content[1] + boxCall[1].content[5] = -3
    /\ boxCall[1].content[2] + boxCall[1].content[6] = 1
    /\ boxCall[1].center = << <<-1, 0>> >>

-----------------------------------------------------------------------------
(* Claims about the threads that use one connection (SpecTrace).            *)

\* C35: the first command written on a connection has id 1 and every later
\* one the id of the one written before it plus 1, so no id is used twice.
C35_IdsRiseByOne ==
    \A i \in 1..Len(wrote) : wrote[i] = i

\* C36: when stop() has finished waiting, its handlers were called with the
\* Tracing.tracingComplete event and with every Tracing.dataCollected event
\* the browser wrote, wherever the reply to Tracing.end stood among them.
C36_StopObservesAllEvents ==
    stopPc = "done" =>
        \A i \in 1..Len(arrival) :
            arrival[i].kind # "reply" =>
                \E j \in 1..Len(observed) : observed[j] = arrival[i]

\* C37: after any enable() and disable() calls the console handler is
\* registered at most once, and every console event is recorded at most once.
C37_HandlersRegisteredOnce ==
    /\ colHandlers <= 1
    /\ \A e \in 1..colEvents :
          Cardinality({ i \in 1..Len(colMessages) : colMessages[i] = e }) <= 1

\* C25: at most one thread is inside CDP.send or CDP.poll of the CDP object
\* at any time, the thread started by start(auto_stop_seconds=...) included.
C25_OneThreadInsideCdp ==
    Cardinality({ t \in Threads : InsideCdp(t) }) <= 1

\* the instants at which a quiet-window timer is started: the start of the
\* script and every mutation
QuietStarts(pg) == {0} \cup pg.muts

\* the ends of the windows in which nothing mutated
QuietEnds(pg) ==
    { s + StableDomFor : s \in { x \in QuietStarts(pg) :
          ~\E m \in pg.muts : x < m /\ m < x + StableDomFor } }

FirstQuiet(pg) == CHOOSE e \in QuietEnds(pg) : \A f \in QuietEnds(pg) : e <= f

\* C28: the DOM-quiescence promise resolves once: true at once when the page
\* has no DOM root, true at the end of the first window of stable_dom_for in
\* which nothing mutated (each mutation starting a new window), false at the
\* overall timeout when no such window ended before it; and
\* wait_for_stable_dom returns that value when the transport delivers it.
C28_StableDomOutcome ==
    wpc # "idle" =>
        /\ StableDomScript(page) =
              IF ~page.root THEN [t |-> 0, v |-> TRUE]
              ELSE IF page.churn \/ FirstQuiet(page) >= StableDomTimeout
              THEN [t |-> StableDomTimeout, v |-> FALSE]
              ELSE [t |-> FirstQuiet(page), v |-> TRUE]
        /\ \A i \in 1..Len(wlog) :
              (wlog[i].step = "wait_for_stable_dom" /\ wlog[i].answer = "value")
                  => wlog[i].ret = <<StableDomScript(page).v>>

C28_Witness ==
    /\ wpc = "done" /\ Len(wlog) = 4
    /\ page.root /\ ~page.churn /\ page.muts = {40, 120}
    /\ wlog[4].answer = "value" /\ wlog[4].ret = <<TRUE>>
    /\ StableDomScript(page).t = 220

WaitSteps == <<"action", "sleep", "wait_for_navigation", "wait_for_stable_dom">>

\* C29: the steps wait_after_action has run are an initial part of: action,
\* grace sleep, navigation wait, DOM wait, each once; when the action raised
\* no wait step ran and the call ends with that exception; a call that ended
\* ends with the outcome of the action, whatever the waits returned.
C29_StepsInOrder ==
    /\ Len(wlog) <= Len(WaitSteps)
    /\ \A i \in 1..Len(wlog) : wlog[i].step = WaitSteps[i]
    /\ (wres # <<>> /\ wres[1].kind = "raise") => (Len(wlog) = 1 /\ wpc = "done")
    /\ wpc = "done" =>
          /\ wres \in { <<Return(TRUE)>>, <<Return(FALSE)>>, <<CdpError>> }
          /\ Len(wlog) >= 1
    /\ wres = <<>> <=> wlog = <<>>

C29_Witness ==
    /\ wpc = "done" /\ Len(wlog) = 4
    /\ wres = <<Return(TRUE)>>
    /\ wlog[3].ret = <<FALSE>> /\ wlog[4].ret = <<FALSE>>

\* C30: a call of wait_after_action ends, whatever the page does, when the
\* action ends and every evaluation is answered.
C30_WaitTerminates == (wpc = "entered") ~> (wpc = "done")

\* the page never loads and never stops mutating, and the call has ended
\* after both waits ran to their timeouts
C30_Witness ==
    /\ wpc = "done" /\ Len(wlog) = 4
    /\ page.ready = "stuck" /\ page.churn /\ page.root
    /\ wlog[3].answer = "value" /\ wlog[4].answer = "value"
    /\ wclock = NavigationDetect + NavigationTimeout + StableDomTimeout

-----------------------------------------------------------------------------
(* Claims about take() as a whole (SpecTake).                               *)

\* an identifier without its "v{version}_" prefix
Suffix(uid, v) == SubSeq(uid, Len(VersionPrefix(v)) + 1, Len(uid))

\* the identifier table with the version prefix taken off the keys: suffix ->
\* what the node is
Unversioned(s) ==
    { [ suffix  |-> Suffix(uid, s.version), raw |-> s.uid_map[uid].raw,
        role    |-> s.uid_map[uid].role, name |-> s.uid_map[uid].name,
        backend |-> s.uid_map[uid].backend_node_id ] : uid \in DOMAIN s.uid_map }

\* the node is left out of the text rendered without verbose
Noise(node) == node.role \in NoiseRoles /\ node.name = ""

\* C33: two take() calls on the same tree, with whatever verbose flags,
\* return the same node count and build the same identifier table up to the
\* version prefix; every identifier of the table, also that of a node left
\* out of the text, validates and resolves to its node and backend handle.
C33_VerboseOnlyChangesText ==
    \A i, j \in 1..Len(took) :
        /\ took[i].count = took[j].count
        /\ took[i].count = Cardinality(DOMAIN took[i].snap.uid_map)
        /\ Unversioned(took[i].snap) = Unversioned(took[j].snap)
        /\ \A uid \in DOMAIN took[i].snap.uid_map :
              /\ validate_uid(took[i].snap, uid)
              /\ took[i].snap.uid_map[uid].uid = uid
              /\ backend_id(took[i].snap, uid) = took[i].snap.uid_map[uid].backend_node_id
              /\ (~took[i].verbose /\ Noise(took[i].snap.uid_map[uid]))
                    => ~Contains(took[i].text, <<"[">> \o uid \o <<"]">>)

\* a take without and a take with verbose of a tree with a nameless wrapper
\* that carries a backend handle
C33_Witness ==
    /\ Len(took) >= 2
    /\ ~took[1].verbose /\ took[2].verbose
    /\ took[1].text # took[2].text
    /\ \E uid \in DOMAIN took[1].snap.uid_map :
          /\ Noise(took[1].snap.uid_map[uid])
          /\ backend_id(took[1].snap, uid) # 0

RECURSIVE StripVersions(_, _)
\* the text with the digits between "[v" and "_" removed; inId: the
\* position is inside such a run of digits
StripVersions(text, inId) ==
    IF text = <<>> THEN <<>>
    ELSE IF inId
    THEN IF Head(text) = "_" THEN <<"_">> \o StripVersions(Tail(text), FALSE)
         ELSE StripVersions(Tail(text), TRUE)
    ELSE IF Len(text) >= 2 /\ text[1] = "[" /\ text[2] = "v"
    THEN <<"[", "v">> \o StripVersions(Tail(Tail(text)), TRUE)
    ELSE <<Head(text)>> \o StripVersions(Tail(text), FALSE)

RolesAndNames(s) ==
    IF s.root = <<>> THEN <<>>
    ELSE LET pre == TreePreorder(s.root[1])
         IN  [k \in 1..Len(pre) |-> <<pre[k].role, pre[k].name>>]

\* C34: two successive take() calls on the same tree return the same node
\* count, parse the same pre-order sequence of (role, name) and, with the
\* same verbose flag, return the same text but for the version in the
\* identifiers; no identifier of the first is an identifier of the second.
C34_RetakeSameButForVersion ==
    \A i \in 1..(Len(took) - 1) :
        /\ took[i + 1].count = took[i].count
        /\ RolesAndNames(took[i + 1].snap) = RolesAndNames(took[i].snap)
        /\ took[i].verbose = took[i + 1].verbose =>
              StripVersions(took[i + 1].text, FALSE) = StripVersions(took[i].text, FALSE)
        /\ DOMAIN took[i].snap.uid_map \cap DOMAIN took[i + 1].snap.uid_map = {}
        /\ took[i + 1].version = took[i].version + 1

\* two takes with the same flag of a tree of three parsed nodes
C34_Witness ==
    /\ Len(took) >= 2
    /\ took[1].verbose = took[2].verbose
    /\ took[1].count = 3
    /\ took[1].text # took[2].text

\* C27: a take() whose accessibility-tree query raised leaves the manager as
\* it was: whenever no take() is in progress the manager holds the last
\* snapshot that was completed, and that snapshot's version.
C27_FailedTakeChangesNothing ==
    pc = "idle" =>
        /\ current = lastComplete
        /\ version = (IF lastComplete = <<>> THEN 0 ELSE lastComplete[1].version)

-----------------------------------------------------------------------------
(* Claims about the manager reached through a BrowserContext (SpecCtx).     *)

\* C26: after reset(), no identifier minted before the reset is accepted:
\* an action or get_element that succeeds on a snapshot taken after the
\* reset was not given an identifier handed out before it.
C26_OldUidsStayUnresolvable ==
    (resetAt # <<>> /\ lastOp.op # "none" /\ lastOp.result.kind = "return") =>
        ~\E m \in minted : m.uid = lastOp.uid /\ m.take <= resetAt[1]

====
